---- MODULE Spec2Model ----
(***************************************************************************)
(* A model of the GoogleCloudPlatformAPI facade classes: the paginated     *)
(* Ad Manager list loops, the CloudStorage blob operations, the BigQuery   *)
(* load / table helpers and client construction, the Ad Manager segment    *)
(* update and forecast methods, and the list and file helpers of Utils.    *)
(* The vendor SDK objects (the Ad Manager service, the storage client, the *)
(* BigQuery client, the local file system) are the environment: their      *)
(* state is part of the model and the calls a handler makes on them are    *)
(* recorded, in order, in `log`.  Two specifications follow a handler     *)
(* request by request while another party acts: a paginated list call     *)
(* while the listed collection loses items, and two callers of an upload  *)
(* whose existence checks and writes interleave.                          *)
(*                                                                         *)
(* Text (paths, blob names, URIs, queries) is a sequence of tokens; "/"    *)
(* is always a token of its own, and dates are formatted digit by digit.   *)
(***************************************************************************)
EXTENDS Integers, Sequences, FiniteSets, TLC

VARIABLES
    call,       \* the handler invocation in progress or last finished
    log,        \* the SDK calls made by that invocation, in order
    pc,         \* position of the paginated loop: "idle", "loop", "done"
    statement,  \* the StatementBuilder of the running list call
    results,    \* the accumulator of the running list call
    responses,  \* the responses the service gave to the running list call
    collection, \* the items the service holds, in the order it lists them
    callers,    \* the position of every caller of an interleaved upload
    buckets,    \* Cloud Storage: bucket name -> (blob name -> content | None)
    files,      \* local file system: path -> content | None
    tables,     \* BigQuery: the set of existing table ids
    created     \* table id -> number of client.create_table calls so far

listVars == <<pc, statement, results, responses, collection, callers>>
vars == <<call, log, pc, statement, results, responses, collection, callers,
          buckets, files, tables, created>>

\* Python's None, True and False as returned values
None == "None"
PyTrue == "True"
PyFalse == "False"
PyBool(b) == IF b THEN PyTrue ELSE PyFalse

\* no invocation is on record
NoCall == [op |-> "none", ret |-> None]

----------------------------------------------------------------------------
(* Bounds of the model *)

\* limit of a StatementBuilder page (the vendor default, scaled down)
PageLimit == 2
\* largest number of requests one list call is followed for
MaxRequests == 3
\* the service's items are 1..MaxItem
MaxItem == 2
\* largest number of client.create_table calls followed for one table
MaxCreateCalls == 2

----------------------------------------------------------------------------
(* Generic helpers *)

\* the map that maps nothing
EmptyMap == [x \in {} |-> x]

\* all sequences over S of length 0..n
SeqUpTo(S, n) == UNION {[1..k -> S] : k \in 0..n}

RECURSIVE Flatten(_)
Flatten(ss) == IF ss = <<>> THEN <<>> ELSE Head(ss) \o Flatten(Tail(ss))

----------------------------------------------------------------------------
(* The world a handler runs in, threaded through the calls it makes.        *)
(* `raised` is None or the name of the exception that ended the handler;    *)
(* every call is skipped once an exception is in flight.                    *)

World == [buckets |-> buckets, files |-> files, tables |-> tables,
          log |-> <<>>, ret |-> None, raised |-> None]

Logged(w, entry) == [w EXCEPT !.log = Append(w.log, entry)]
Return(w, value) == [w EXCEPT !.ret = value]
Raise(w, exception) == [w EXCEPT !.raised = exception, !.ret = None]

\* the calls of a log made on one SDK method
RECURSIVE Calls(_, _)
Calls(l, api) ==
    IF l = <<>> THEN <<>>
    ELSE (IF Head(l).api = api THEN <<Head(l)>> ELSE <<>>) \o Calls(Tail(l), api)

\* some enumeration of a finite set
RECURSIVE SetToSeq(_)
SetToSeq(S) ==
    IF S = {} THEN <<>>
    ELSE LET x == CHOOSE y \in S : TRUE IN <<x>> \o SetToSeq(S \ {x})

\* str.startswith
StartsWith(name, prefix) ==
    /\ Len(prefix) <= Len(name)
    /\ SubSeq(name, 1, Len(prefix)) = prefix

\* str.endswith
EndsWith(name, suffix) ==
    /\ Len(suffix) <= Len(name)
    /\ SubSeq(name, Len(name) - Len(suffix) + 1, Len(name)) = suffix

----------------------------------------------------------------------------
(* Cloud Storage *)

\* a bucket without the blob `name`
Without(bucket, name) == [n \in DOMAIN bucket \ {name} |-> bucket[n]]

\* a bucket with the blob `name` created or replaced
With(bucket, name, content) ==
    [n \in DOMAIN bucket \cup {name} |->
        IF n = name THEN content ELSE bucket[n]]

\* Content of a blob or of a local file: plain text, [text |-> t], or the
\* text of a JSON document, [json |-> document, layout |-> l], where the
\* layout is "dumps" for the text json.dumps writes.
IsJson(content) == DOMAIN content = {"json", "layout"}

\* str(data): text is itself, another object is rendered as text
PyStr(data) ==
    IF "object" \in DOMAIN data THEN [text |-> <<"str", data.object>>]
    ELSE data

\* json.loads, for text that is a JSON document
JsonLoads(content) == content.json
\* json.dumps: the document in json's own layout
JsonDumps(document) == [json |-> document, layout |-> "dumps"]

\* blob.exists()
file_exists(w, filepath, bucket_name) ==
    LET found == filepath \in DOMAIN w.buckets[bucket_name] IN
    Return(Logged(w, [api |-> "blob.exists", bucket |-> bucket_name,
                      name |-> filepath, ret |-> found]), PyBool(found))

\* client.list_blobs(bucket_name, prefix=prefix)
list_blobs(w, bucket_name, prefix) ==
    SetToSeq({n \in DOMAIN w.buckets[bucket_name] : StartsWith(n, prefix)})

list_files(w, bucket_name, prefix) ==
    Return(Logged(w, [api |-> "list_blobs", bucket |-> bucket_name,
                      prefix |-> prefix]),
           list_blobs(w, bucket_name, prefix))

\* blob.upload_from_string(data)
blob_upload_from_string(w, bucket_name, name, data) ==
    [Logged(w, [api |-> "blob.upload_from_string", bucket |-> bucket_name,
                name |-> name, data |-> data])
     EXCEPT !.buckets[bucket_name] = With(@, name, data)]

\* blob.upload_from_filename(path): the local file must exist
blob_upload_from_filename(w, bucket_name, name, path) ==
    IF path \notin DOMAIN w.files
    THEN Raise(Logged(w, [api |-> "blob.upload_from_filename",
                          bucket |-> bucket_name, name |-> name,
                          path |-> path, ok |-> FALSE]),
               "FileNotFoundError")
    ELSE [Logged(w, [api |-> "blob.upload_from_filename",
                     bucket |-> bucket_name, name |-> name,
                     path |-> path, ok |-> TRUE])
          EXCEPT !.buckets[bucket_name] = With(@, name, w.files[path])]

\* upload: `if not override: if self.file_exists(...): return`
UploadSkips(override, exists) == ~override /\ exists

upload(w, bucket_name, destination_blob_name, data, override) ==
    LET e == IF override THEN w
             ELSE file_exists(w, destination_blob_name, bucket_name) IN
    IF UploadSkips(override, e.ret = PyTrue)
    THEN Return(e, None)
    ELSE Return(blob_upload_from_string(e, bucket_name,
                                        destination_blob_name, PyStr(data)),
                None)

\* upload_from_string: `if not self.file_exists(...) or override:`
UploadFromStringWritesAlways(exists, override) == TRUE
UploadFromStringWrites(exists, override) == ~exists \/ override

upload_from_string(w, bucket_name, destination_blob_name, data, override) ==
    LET e == file_exists(w, destination_blob_name, bucket_name) IN
    IF UploadFromStringWrites(e.ret = PyTrue, override)
    THEN Return(blob_upload_from_string(e, bucket_name,
                                        destination_blob_name, data), None)
    ELSE Return(e, None)

\* upload_file_from_filename: `if not self.file_exists(...) or override:`
UploadFileWrites(exists, override) == ~exists \/ override

upload_file_from_filename(w, local_file_path, destination_file_path, bucket_name, override) ==
    IF w.raised # None THEN w ELSE
    LET e == file_exists(w, destination_file_path, bucket_name) IN
    IF UploadFileWrites(e.ret = PyTrue, override)
    THEN LET u == blob_upload_from_filename(e, bucket_name,
                                            destination_file_path,
                                            local_file_path) IN
         IF u.raised # None THEN u ELSE Return(u, None)
    ELSE Return(e, None)

\* delete_files: `for blob in blobs: blob.delete()`
RECURSIVE DeleteEach(_, _, _)
DeleteEach(w, bucket_name, blobs) ==
    IF blobs = <<>> THEN w
    ELSE DeleteEach(
            [Logged(w, [api |-> "blob.delete", bucket |-> bucket_name,
                        name |-> Head(blobs)])
             EXCEPT !.buckets[bucket_name] = Without(@, Head(blobs))],
            bucket_name, Tail(blobs))

DeleteFilesListsWholeBucket(w, bucket_name, prefix) ==
    list_blobs(w, bucket_name, <<>>)
DeleteFilesLists(w, bucket_name, prefix) ==
    list_blobs(w, bucket_name, prefix)

delete_files(w, bucket_name, prefix) ==
    LET l == Logged(w, [api |-> "list_blobs", bucket |-> bucket_name,
                        prefix |-> prefix]) IN
    Return(DeleteEach(l, bucket_name, DeleteFilesLists(w, bucket_name, prefix)),
           None)

\* source_bucket.copy_blob(source_blob, destination_bucket, file_name)
copy_blob(w, bucket_name, file_name, destination_bucket_name) ==
    IF file_name \notin DOMAIN w.buckets[bucket_name]
    THEN Raise(Logged(w, [api |-> "copy_blob", bucket |-> bucket_name,
                          name |-> file_name,
                          destination |-> destination_bucket_name,
                          ok |-> FALSE]),
               "NotFound")
    ELSE [Logged(w, [api |-> "copy_blob", bucket |-> bucket_name,
                     name |-> file_name,
                     destination |-> destination_bucket_name, ok |-> TRUE])
          EXCEPT !.buckets[destination_bucket_name] =
                     With(@, file_name, w.buckets[bucket_name][file_name])]

\* copy_file: `if not self.file_exists(...) or override:`
CopyFileCopiesOnlyWhenAbsent(exists, override) == ~exists
CopyFileCopies(exists, override) == ~exists \/ override

copy_file(w, bucket_name, file_name, destination_bucket_name, override) ==
    IF w.raised # None THEN w ELSE
    LET e == file_exists(w, file_name, destination_bucket_name) IN
    IF CopyFileCopies(e.ret = PyTrue, override)
    THEN LET c == copy_blob(e, bucket_name, file_name,
                            destination_bucket_name) IN
         IF c.raised # None THEN c ELSE Return(c, PyTrue)
    ELSE Return(e, PyFalse)

----------------------------------------------------------------------------
(* Text, dates and paths *)

Digit(i) == <<"0", "1", "2", "3", "4", "5", "6", "7", "8", "9">>[i + 1]

\* the decimal digits of n >= 0
RECURSIVE Decimal(_)
Decimal(n) == IF n < 10 THEN <<Digit(n)>>
              ELSE Append(Decimal(n \div 10), Digit(n % 10))

\* n in decimal, zero-padded on the left to at least `width` digits
RECURSIVE ZeroPad(_, _)
ZeroPad(digits, width) ==
    IF Len(digits) >= width THEN digits ELSE ZeroPad(<<"0">> \o digits, width)

\* a partition_date that is None
NoneDate == [year |-> 0, month |-> 0, day |-> 0]

\* date.strftime('%Y-%m-%d')
Strftime(date) ==
    ZeroPad(Decimal(date.year), 4) \o <<"-">>
        \o ZeroPad(Decimal(date.month), 2) \o <<"-">>
        \o ZeroPad(Decimal(date.day), 2)

\* str.rfind("/") + 1: the position of the last "/", 0 when there is none
LastSlash(path) ==
    LET at == {i \in 1..Len(path) : path[i] = "/"} IN
    IF at = {} THEN 0 ELSE CHOOSE i \in at : \A j \in at : j <= i

\* str.rstrip("/")
RECURSIVE RStripSlash(_)
RStripSlash(path) ==
    IF path # <<>> /\ path[Len(path)] = "/"
    THEN RStripSlash(SubSeq(path, 1, Len(path) - 1))
    ELSE path

\* os.path.dirname: the head up to the last "/", trailing slashes stripped
\* unless the head is slashes only
dirname(path) ==
    LET head == SubSeq(path, 1, LastSlash(path)) IN
    IF head # <<>> /\ (\E i \in 1..Len(head) : head[i] # "/")
    THEN RStripSlash(head) ELSE head

\* os.path.basename: what follows the last "/"
basename(path) == SubSeq(path, LastSlash(path) + 1, Len(path))

----------------------------------------------------------------------------
(* The local file system: `files` maps a path to the content of the file,  *)
(* and the path of a directory, written with its trailing "/", to           *)
(* Directory.                                                               *)

Directory == [dir |-> "dir"]

\* os.path.exists
path_exists(w, path) == path \in DOMAIN w.files

\* the directory a new file at `path` would be created in exists
ParentExists(w, path) ==
    LET parent == SubSeq(path, 1, LastSlash(path)) IN
    parent = <<>> \/ (parent \in DOMAIN w.files /\ w.files[parent] = Directory)

\* `with open(path, "w") as f: f.write(content)`
open_write(w, path, content) ==
    IF ~ParentExists(w, path)
    THEN Raise(Logged(w, [api |-> "open", mode |-> "w", path |-> path,
                          ok |-> FALSE]), "FileNotFoundError")
    ELSE [Logged(w, [api |-> "open", mode |-> "w", path |-> path,
                     ok |-> TRUE])
          EXCEPT !.files = With(@, path, content)]

\* `with open(path, mode="r") as f: json.load(f)`: the document is returned
open_json(w, path) ==
    IF ~path_exists(w, path)
    THEN Raise(Logged(w, [api |-> "open", mode |-> "r", path |-> path,
                          ok |-> FALSE]), "FileNotFoundError")
    ELSE IF ~IsJson(w.files[path])
    THEN Raise(Logged(w, [api |-> "open", mode |-> "r", path |-> path,
                          ok |-> TRUE]), "JSONDecodeError")
    ELSE Return(Logged(w, [api |-> "open", mode |-> "r", path |-> path,
                           ok |-> TRUE]),
                JsonLoads(w.files[path]))

\* shutil.copy(src, dst)
shutil_copy(w, src, dst) ==
    IF ~path_exists(w, src) \/ ~ParentExists(w, dst)
    THEN Raise(Logged(w, [api |-> "shutil.copy", src |-> src, dst |-> dst,
                          ok |-> FALSE]), "FileNotFoundError")
    ELSE [Logged(w, [api |-> "shutil.copy", src |-> src, dst |-> dst,
                     ok |-> TRUE])
          EXCEPT !.files = With(@, dst, w.files[src])]

\* CloudStorage.download_as_string: download, json.loads, json.dumps, write
download_as_string(w, bucket_name, source_blob_name, destination_file_name) ==
    LET d == Logged(w, [api |-> "blob.download_as_string",
                        bucket |-> bucket_name, name |-> source_blob_name,
                        destination |-> destination_file_name]) IN
    IF source_blob_name \notin DOMAIN w.buckets[bucket_name]
    THEN Raise(d, "NotFound")
    ELSE LET json_data_string == w.buckets[bucket_name][source_blob_name] IN
         IF ~IsJson(json_data_string) THEN Raise(d, "JSONDecodeError")
         ELSE open_write(d, destination_file_name,
                         JsonDumps(JsonLoads(json_data_string)))

----------------------------------------------------------------------------
(* BigQuery.build_job_config *)

WRITE_APPEND == "WRITE_APPEND"
WRITE_TRUNCATE == "WRITE_TRUNCATE"
CSV == "CSV"
NEWLINE_DELIMITED_JSON == "NEWLINE_DELIMITED_JSON"

SchemaJson == <<"schema.json">>

\* `if not os.path.exists(schema_path):` download
SchemaDownloadedAlways(exists) == TRUE
SchemaDownloaded(exists) == ~exists

\* `if not os.path.exists(partition_schema_path):` copy
SchemaCopied(exists) == ~exists

\* [SchemaField(name=f["name"], field_type=f["type"], mode=f["mode"]) for f ..]
RECURSIVE SchemaFields(_)
SchemaFields(table_schema) ==
    IF table_schema = <<>> THEN <<>>
    ELSE <<[name |-> Head(table_schema).name,
            field_type |-> Head(table_schema).type,
            mode |-> Head(table_schema).mode]>>
         \o SchemaFields(Tail(table_schema))

\* the uri before the pattern is appended (partition_date is not None)
PartitionUriWholePath(bucket_name, folder_name, partition_date) ==
    <<"gs://", bucket_name, "/">> \o folder_name
        \o <<"/">> \o Strftime(partition_date)
PartitionUri(bucket_name, folder_name, partition_date) ==
    <<"gs://", bucket_name, "/">> \o basename(dirname(folder_name))
        \o <<"/">> \o Strftime(partition_date)

\* lines 784-812: the configuration and the uri, from the parsed schema
JobConfigOf(schema_json, bucket_name, folder_name, partition_date) ==
    LET base == [schema |-> SchemaFields(schema_json.table_schema),
                 allow_jagged_rows |-> schema_json.allow_jagged_rows,
                 allow_quoted_newlines |-> schema_json.allow_quoted_newlines,
                 ignore_unknown_values |-> schema_json.ignore_unknown_values,
                 write_disposition |->
                     IF partition_date # NoneDate THEN WRITE_APPEND
                     ELSE WRITE_TRUNCATE,
                 field_delimiter |-> None,
                 skip_leading_rows |-> None,
                 source_format |-> None]
        uri == IF partition_date # NoneDate
               THEN PartitionUri(bucket_name, folder_name, partition_date)
               ELSE <<"gs://", bucket_name, "/">> \o folder_name
    IN  IF schema_json.source_format = CSV
        THEN [job_config |->
                  [base EXCEPT !.field_delimiter = schema_json.field_delimiter,
                               !.skip_leading_rows =
                                   schema_json.skip_leading_rows,
                               !.source_format = CSV],
              uri |-> uri \o <<"/", "*", ".csv", ".gz">>]
        ELSE [job_config |->
                  [base EXCEPT !.source_format = NEWLINE_DELIMITED_JSON],
              uri |-> uri \o <<"/", "*", ".json", ".gz">>]

build_job_config(w, table_name, bucket_name, data_path, partition_date) ==
    IF w.raised # None THEN w ELSE
    LET folder_name == data_path
        schema_path == folder_name \o SchemaJson
        d == IF SchemaDownloaded(path_exists(w, schema_path))
             THEN download_as_string(w, bucket_name,
                                     folder_name \o <<"/">> \o SchemaJson,
                                     schema_path)
             ELSE w
    IN
    IF d.raised # None THEN d ELSE
    \* partition_date.strftime on None
    IF partition_date = NoneDate THEN Raise(d, "AttributeError") ELSE
    LET partition_schema_path ==
            folder_name \o Strftime(partition_date) \o <<"/">> \o SchemaJson
        c == IF SchemaCopied(path_exists(d, partition_schema_path))
             THEN shutil_copy(d, schema_path, partition_schema_path)
             ELSE d
    IN
    IF c.raised # None THEN c ELSE
    LET r == open_json(c, partition_schema_path) IN
    IF r.raised # None THEN r ELSE
    Return(r, JobConfigOf(r.ret, bucket_name, folder_name, partition_date))

----------------------------------------------------------------------------
(* CloudStorage.upload_folder *)

\* fnmatch of a file name against a mask "*<suffix>": "*" matches any text,
\* but a name that starts with "." is hidden from it
MatchesMask(name, file_mask) ==
    /\ EndsWith(name, Tail(file_mask))
    /\ Len(name) > Len(file_mask) - 1

\* glob.glob(local_folder + file_mask): the entries of the folder itself
glob(w, local_folder, file_mask) ==
    SetToSeq({path \in DOMAIN w.files :
                /\ StartsWith(path, local_folder)
                /\ LET name == SubSeq(path, Len(local_folder) + 1, Len(path))
                   IN  /\ \A i \in 1..Len(name) : name[i] # "/"
                       /\ MatchesMask(name, file_mask)})

RECURSIVE UploadEach(_, _, _, _, _)
UploadEach(w, allfiles, remote_folder, bucket_name, override) ==
    IF allfiles = <<>> \/ w.raised # None THEN w
    ELSE UploadEach(
            upload_file_from_filename(
                w, Head(allfiles), remote_folder \o basename(Head(allfiles)),
                bucket_name, override),
            Tail(allfiles), remote_folder, bucket_name, override)

upload_folder(w, local_folder, remote_folder, bucket_name, file_mask, override) ==
    IF w.raised # None THEN w ELSE
    UploadEach(Logged(w, [api |-> "glob", folder |-> local_folder,
                          mask |-> file_mask]),
               glob(w, local_folder, file_mask),
               remote_folder, bucket_name, override)

----------------------------------------------------------------------------
(* BigQuery: tables, partitions and load jobs *)

TableId(data_set, table) == <<data_set, ".", table>>

\* client.get_table inside try/except NotFound
table_exists(w, table_id) ==
    LET found == table_id \in w.tables IN
    Return(Logged(w, [api |-> "client.get_table", table |-> table_id,
                      ret |-> found]), PyBool(found))

\* f"DELETE FROM {table_id} WHERE {partition_name} = '{date:%Y-%m-%d}'"
DeleteQueryUnquoted(table_id, partition_date, partition_name) ==
    <<"DELETE FROM ">> \o table_id \o <<" WHERE ", partition_name, " = ">>
        \o Strftime(partition_date)
DeleteQuery(table_id, partition_date, partition_name) ==
    <<"DELETE FROM ">> \o table_id \o <<" WHERE ", partition_name, " = ", "'">>
        \o Strftime(partition_date) \o <<"'">>

delete_partition(w, table_id, partition_date, partition_name) ==
    IF w.raised # None THEN w ELSE
    LET e == table_exists(w, table_id) IN
    IF e.ret = PyTrue
    THEN \* partition_date.strftime on None
         IF partition_date = NoneDate THEN Raise(e, "AttributeError") ELSE
         LET q == Logged(e, [api |-> "client.query",
                             query |-> DeleteQuery(table_id, partition_date,
                                                   partition_name)])
             r == Logged(q, [api |-> "query_job.result"])
         IN  Return(r, PyTrue)
    ELSE Return(e, PyFalse)

\* load_from_cloud: `if override: self.delete_partition(...)`
LoadFromCloudNeverDeletes(override) == FALSE
LoadFromCloudDeletes(override) == override

load_from_cloud(w, bucket_name, data_set, table, local_folder, remote_folder, partition_date, partition_name, file_mask, override) ==
    IF w.raised # None THEN w ELSE
    LET table_id == TableId(data_set, table)
        d == IF LoadFromCloudDeletes(override)
             THEN delete_partition(w, table_id, partition_date, partition_name)
             ELSE w
        b == build_job_config(d, table_id, bucket_name, remote_folder,
                              partition_date)
    IN
    IF b.raised # None THEN b ELSE
    LET l == Logged(b, [api |-> "client.load_table_from_uri",
                        uri |-> b.ret.uri, table |-> table_id,
                        job_config |-> b.ret.job_config])
        r == Logged(l, [api |-> "load_job.result"])
    IN  Return(r, PyTrue)

\* load_from_local: `if override: cs.delete_files(...)`
LoadFromLocalDeletesAlways(override) == TRUE
LoadFromLocalDeletes(override) == override

load_from_local(w, bucket_name, data_set, table, local_folder, prefix, partition_date, partition_name, file_mask, override) ==
    LET remote_folder == <<table, "/">>
        dest_folder == IF partition_date # NoneDate
                       THEN remote_folder \o Strftime(partition_date) \o <<"/">>
                       ELSE remote_folder
        source_folder == IF partition_date # NoneDate
                         THEN local_folder \o Strftime(partition_date)
                                  \o <<"/">>
                         ELSE local_folder
        x == IF LoadFromLocalDeletes(override)
             THEN delete_files(w, bucket_name, dest_folder)
             ELSE w
        schema_path == local_folder \o SchemaJson
        d == IF ~path_exists(x, schema_path)
             THEN download_as_string(x, bucket_name,
                                     remote_folder \o SchemaJson, schema_path)
             ELSE x
    IN
    IF d.raised # None THEN d ELSE
    LET partition_schema_path == source_folder \o SchemaJson
        c == IF ~path_exists(d, partition_schema_path)
             THEN shutil_copy(d, schema_path, partition_schema_path)
             ELSE d
        u == upload_folder(c, source_folder, dest_folder, bucket_name,
                           file_mask, override)
    IN  load_from_cloud(u, bucket_name, data_set, table, local_folder,
                        remote_folder, partition_date, partition_name,
                        file_mask, override)

----------------------------------------------------------------------------
(* BigQuery.create_table_from_schema *)

\* os.environ
Environ == [DEFAULT_BQ_DATASET |-> "ds", DATA_PATH |-> <<"/", "data", "/">>]

\* a data_path argument that is None
NonePath == <<None>>

\* client.create_table: an existing table is a Conflict
create_table(w, table_id, schema, partition_field) ==
    IF table_id \in w.tables
    THEN Raise(Logged(w, [api |-> "client.create_table", table |-> table_id,
                          ok |-> FALSE]), "Conflict")
    ELSE [Logged(w, [api |-> "client.create_table", table |-> table_id,
                     schema |-> schema, partition_field |-> partition_field,
                     ok |-> TRUE])
          EXCEPT !.tables = @ \cup {table_id}]

\* `if not self.table_exists(f"{dataset}.{folder}"):`
CreatesTableAlways(exists) == TRUE
CreatesTable(exists) == ~exists

\* "report_date" when a field has that name, else "date"
PartitionField(table_schema) ==
    IF \E i \in 1..Len(table_schema) : table_schema[i].name = "report_date"
    THEN "report_date" ELSE "date"

create_table_from_schema(w, folder, dataset_arg, data_path_arg) ==
    LET dataset == IF dataset_arg = None THEN Environ.DEFAULT_BQ_DATASET
                   ELSE dataset_arg
        data_path == IF data_path_arg = NonePath THEN Environ.DATA_PATH
                     ELSE data_path_arg
        e == table_exists(w, TableId(dataset, folder))
    IN
    IF CreatesTable(e.ret = PyTrue)
    THEN LET r == open_json(e, data_path \o <<folder, "/">> \o SchemaJson) IN
         IF r.raised # None THEN r ELSE
         LET c == create_table(r, TableId(dataset, folder),
                               SchemaFields(r.ret.table_schema),
                               PartitionField(r.ret.table_schema))
         IN  IF c.raised # None THEN c ELSE Return(c, PyTrue)
    ELSE Return(e, PyFalse)

----------------------------------------------------------------------------
(* Ad Manager: paginated list loops *)

Items == 1..MaxItem

\* A page of results: at most `limit` items, none of them twice.
Pages == {s \in SeqUpTo(Items, PageLimit) :
            \A i, j \in 1..Len(s) : s[i] = s[j] => i = j}

\* A response of get...ByStatement: a dict that may lack the 'results' key.
NoResultsKey == [hasKey |-> FALSE, results |-> <<>>]
Responses ==
    {NoResultsKey} \cup {[hasKey |-> TRUE, results |-> s] : s \in Pages}

ListMethods == {"AudienceService.list", "AudienceService.list_all",
                "CustomTargetingService.list"}

\* StatementBuilder(version=GAM_VERSION): offset 0 and the default limit
StatementBuilder == [offset |-> 0, limit |-> PageLimit]

\* `"results" in response and len(response["results"])`
HasResults(response) == response.hasKey /\ Len(response.results) # 0

\* `results.extend(response["results"])`
ExtendReplacing(acc, page) == page
Extend(acc, page) == acc \o page

\* `for v in response["results"]: key_value_pairs_list.append(v)`
RECURSIVE AppendEach(_, _)
AppendEach(acc, page) ==
    IF page = <<>> THEN acc
    ELSE AppendEach(Append(acc, Head(page)), Tail(page))

\* `statement.offset += statement.limit`
NextPageSameOffset(st) == st
NextPage(st) == [st EXCEPT !.offset = st.offset + st.limit]

ListIdleInit ==
    /\ pc = "idle"
    /\ statement = StatementBuilder
    /\ results = <<>>
    /\ responses = <<>>
    /\ collection = <<>>
    /\ callers = <<>>

\* Entry of a list method: the statement is built, the accumulator is empty.
ListStart(m) ==
    /\ pc \in {"idle", "done"}
    /\ pc' = "loop"
    /\ statement' = StatementBuilder
    /\ results' = <<>>
    /\ responses' = <<>>
    /\ call' = [op |-> m, ret |-> None]
    /\ log' = <<>>
    /\ UNCHANGED <<collection, callers, buckets, files, tables, created>>

\* One iteration of `while True:`; the service may answer anything.
ListIteration(m, response, acc) ==
    /\ pc = "loop"
    /\ call.op = m
    /\ Len(log) < MaxRequests
    /\ log' = Append(log, [api |-> "ByStatement", offset |-> statement.offset,
                           limit |-> statement.limit])
    /\ responses' = Append(responses, response)
    /\ IF HasResults(response)
       THEN /\ results' = acc
            /\ statement' = NextPage(statement)
            /\ pc' = "loop"
            /\ call' = call
       ELSE /\ results' = results
            /\ statement' = statement
            /\ pc' = "done"
            /\ call' = [call EXCEPT !.ret = results]
    /\ UNCHANGED <<collection, callers, buckets, files, tables, created>>

AudienceList ==
    \E response \in Responses :
        ListIteration("AudienceService.list", response,
                      Extend(results, response.results))

AudienceListAll ==
    \E response \in Responses :
        ListIteration("AudienceService.list_all", response,
                      Extend(results, response.results))

CustomTargetingList ==
    \E response \in Responses :
        ListIteration("CustomTargetingService.list", response,
                      AppendEach(results, response.results))

ListInit ==
    /\ ListIdleInit
    /\ call = NoCall
    /\ log = <<>>
    /\ buckets = <<>>
    /\ files = <<>>
    /\ tables = {}
    /\ created = EmptyMap

ListNext ==
    \/ \E m \in ListMethods : ListStart(m)
    \/ AudienceList
    \/ AudienceListAll
    \/ CustomTargetingList

SpecList == ListInit /\ [][ListNext]_vars

----------------------------------------------------------------------------
(* Cloud Storage handlers as actions *)

\* The caller takes the result of the finished invocation; the program is
\* sequential, so the next handler starts only after that.
TakeResult ==
    /\ call.op \notin {"none"} \cup ListMethods
    /\ call' = NoCall
    /\ log' = <<>>
    /\ UNCHANGED <<listVars, buckets, files, tables, created>>

\* `created` after the client.create_table calls of one invocation
RECURSIVE CountCreations(_, _)
CountCreations(count, creations) ==
    IF creations = <<>> THEN count
    ELSE CountCreations(
            [t \in DOMAIN count \cup {Head(creations).table} |->
                IF t = Head(creations).table
                THEN (IF t \in DOMAIN count THEN count[t] ELSE 0) + 1
                ELSE count[t]],
            Tail(creations))

\* the state a finished handler leaves, and the record of its invocation
Commit(w, op, args) ==
    /\ call = NoCall
    /\ buckets' = w.buckets
    /\ files' = w.files
    /\ tables' = w.tables
    /\ log' = w.log
    /\ created' = CountCreations(created, Calls(w.log, "client.create_table"))
    /\ call' = [op |-> op, args |-> args, ret |-> w.ret, raised |-> w.raised,
                pre |-> [buckets |-> buckets, files |-> files,
                         tables |-> tables]]
    /\ UNCHANGED listVars

BucketNames == {"b1", "b2"}
BlobNames == {<<"x">>, <<"x", "y">>, <<"z">>}
Prefixes == {<<>>, <<"x">>, <<"x", "y">>, <<"y">>}
Texts == {[text |-> "old"], [text |-> "new"]}
Objects == {[object |-> "obj"]}
LocalPaths == {<<"L1">>, <<"L2">>}

\* every bucket: some blobs of BlobNames, each with some text
Buckets == UNION {[D -> Texts] : D \in SUBSET BlobNames}

Upload ==
    \E b \in BucketNames, n \in BlobNames, d \in {[text |-> "new"]} \cup Objects,
       o \in BOOLEAN :
        Commit(upload(World, b, n, d, o), "upload",
               [bucket |-> b, name |-> n, data |-> PyStr(d), override |-> o])

UploadFromString ==
    \E b \in BucketNames, n \in BlobNames, o \in BOOLEAN :
        Commit(upload_from_string(World, b, n, [text |-> "new"], o),
               "upload_from_string",
               [bucket |-> b, name |-> n, data |-> [text |-> "new"],
                override |-> o])

UploadFileFromFilename ==
    \E b \in BucketNames, n \in BlobNames, p \in LocalPaths, o \in BOOLEAN :
        Commit(upload_file_from_filename(World, p, n, b, o),
               "upload_file_from_filename",
               [bucket |-> b, name |-> n, path |-> p, override |-> o])

DeleteFiles ==
    \E b \in BucketNames, p \in Prefixes :
        Commit(delete_files(World, b, p), "delete_files",
               [bucket |-> b, prefix |-> p])

CopyFile ==
    \E b \in BucketNames, n \in BlobNames, d \in BucketNames, o \in BOOLEAN :
        Commit(copy_file(World, b, n, d, o), "copy_file",
               [bucket |-> b, name |-> n, destination |-> d, override |-> o])

CSInit ==
    /\ ListIdleInit
    /\ call = NoCall
    /\ log = <<>>
    /\ buckets \in [BucketNames -> Buckets]
    /\ files = [p \in {<<"L1">>} |-> [text |-> "new"]]
    /\ tables = {}
    /\ created = EmptyMap

CSNext ==
    \/ Upload
    \/ UploadFromString
    \/ UploadFileFromFilename
    \/ DeleteFiles
    \/ CopyFile
    \/ TakeResult

SpecCS == CSInit /\ [][CSNext]_vars

----------------------------------------------------------------------------
(* BigQuery.build_job_config as an action *)

Dates == {[year |-> 2024, month |-> 1, day |-> 5],
          [year |-> 2023, month |-> 12, day |-> 31]}

TableSchema == <<[name |-> "col1", type |-> "STRING", mode |-> "NULLABLE"],
                 [name |-> "col2", type |-> "INTEGER", mode |-> "REQUIRED"]>>

SchemaDocument(source_format, field_delimiter, skip_leading_rows) ==
    [allow_jagged_rows |-> TRUE, allow_quoted_newlines |-> TRUE,
     ignore_unknown_values |-> FALSE, source_format |-> source_format,
     field_delimiter |-> field_delimiter,
     skip_leading_rows |-> skip_leading_rows, table_schema |-> TableSchema]

SchemaDocuments ==
    {SchemaDocument(CSV, ";", 1), SchemaDocument(CSV, ",", 0),
     SchemaDocument(NEWLINE_DELIMITED_JSON, ",", 0),
     SchemaDocument("JSON", ";", 1)}

\* schema files as somebody wrote them
SchemaTexts == {[json |-> d, layout |-> "written"] : d \in SchemaDocuments}

\* the data paths handed to build_job_config: directories, "/" at the end
DataPaths == {<<"t", "/">>, <<"/", "data", "/", "t", "/">>}

Absent == [absent |-> "absent"]
Entry(path, content) == IF content = Absent THEN EmptyMap ELSE path :> content

\* The local tree below `root`: the table folder with or without its
\* schema.json, and for each date a partition folder that is missing, empty
\* or holds a schema.json.
PartitionTree(root, date, state) ==
    IF state = Absent THEN EmptyMap
    ELSE (root \o Strftime(date) \o <<"/">>) :> Directory
         @@ (IF state = Directory THEN EmptyMap
             ELSE (root \o Strftime(date) \o <<"/">> \o SchemaJson) :> state)

RECURSIVE PartitionTrees(_, _, _)
PartitionTrees(root, dates, states) ==
    IF dates = <<>> THEN EmptyMap
    ELSE PartitionTree(root, Head(dates), states[Head(dates)])
         @@ PartitionTrees(root, Tail(dates), states)

LocalTrees(root) ==
    {(root :> Directory) @@ Entry(root \o SchemaJson, schema)
        @@ PartitionTrees(root, SetToSeq(Dates), states) :
        schema \in {Absent} \cup SchemaTexts,
        states \in [Dates -> {Absent, Directory} \cup SchemaTexts]}

JobConfigInit ==
    /\ ListIdleInit
    /\ call = NoCall
    /\ log = <<>>
    /\ tables = {}
    /\ created = EmptyMap
    /\ \E root \in DataPaths :
          /\ files \in LocalTrees(root)
          /\ \E blob \in {Absent, [text |-> "no json"]} \cup SchemaTexts :
                buckets = [b \in BucketNames |->
                              IF b = "b1"
                              THEN Entry(root \o <<"/">> \o SchemaJson, blob)
                              ELSE EmptyMap]

BuildJobConfig ==
    \E data_path \in DataPaths, partition_date \in Dates \cup {NoneDate} :
        Commit(build_job_config(World, <<"ds", ".", "t">>, "b1", data_path,
                                partition_date),
               "build_job_config",
               [bucket |-> "b1", data_path |-> data_path,
                partition_date |-> partition_date])

JobConfigNext ==
    \/ BuildJobConfig
    \/ TakeResult

SpecJobConfig == JobConfigInit /\ [][JobConfigNext]_vars

----------------------------------------------------------------------------
(* BigQuery.load_from_cloud and load_from_local as actions *)

LoadDate == [year |-> 2024, month |-> 1, day |-> 5]
OtherDate == [year |-> 2023, month |-> 12, day |-> 31]

CsvText == [json |-> SchemaDocument(CSV, ";", 1), layout |-> "written"]
JsonText == [json |-> SchemaDocument(NEWLINE_DELIMITED_JSON, ",", 0),
             layout |-> "written"]

FileMasks == {<<"*", ".csv", ".gz">>, <<"*", ".gz">>}

\* The partition folder of LoadDate below `root`: missing, or there with or
\* without its schema.json and with or without its two data files.
LoadPartitions(root) ==
    LET folder == root \o Strftime(LoadDate) \o <<"/">> IN
    {EmptyMap} \cup
    {(folder :> Directory) @@ Entry(folder \o SchemaJson, schema) @@ data :
        schema \in {Absent, CsvText},
        data \in {EmptyMap,
                  (folder \o <<"f1", ".csv", ".gz">>) :> [text |-> "rows1"]
                  @@ (folder \o <<"f2", ".json", ".gz">>) :> [text |-> "rows2"]}}

LoadTrees(root) ==
    {EmptyMap} \cup
    {(root :> Directory) @@ Entry(root \o SchemaJson, schema) @@ partition :
        schema \in {Absent, CsvText}, partition \in LoadPartitions(root)}

\* The folder t/ of the working directory: missing, or there with the
\* partition folder of LoadDate, with or without a schema.json.
CwdTrees ==
    {EmptyMap} \cup
    {(<<"t", "/">> :> Directory)
        @@ ((<<"t", "/">> \o Strftime(LoadDate) \o <<"/">>) :> Directory)
        @@ Entry(<<"t", "/">> \o SchemaJson, schema) :
        schema \in {Absent, CsvText}}

\* the blobs of bucket b1 a load may meet
LoadBlobs ==
    {Entry(<<"t", "/">> \o SchemaJson, schema)
        @@ Entry(<<"t", "/", "/">> \o SchemaJson, schema2)
        @@ Entry(<<"t", "/">> \o Strftime(LoadDate)
                    \o <<"/", "f1", ".csv", ".gz">>, old)
        @@ Entry(<<"t", "/">> \o Strftime(OtherDate)
                    \o <<"/", "f1", ".csv", ".gz">>, [text |-> "old"]) :
        schema \in {Absent, JsonText}, schema2 \in {Absent, JsonText},
        old \in {Absent, [text |-> "old"]}}

LoadInit ==
    /\ ListIdleInit
    /\ call = NoCall
    /\ log = <<>>
    /\ created = EmptyMap
    /\ tables \in {{}, {TableId("ds", "t")}}
    /\ \E local \in LoadTrees(<<"/", "data", "/", "t", "/">>),
          cwd \in CwdTrees : files = local @@ cwd
    /\ \E blobs \in LoadBlobs :
          buckets = [b \in BucketNames |->
                        IF b = "b1" THEN blobs ELSE EmptyMap]

LoadFromCloud ==
    \E remote_folder \in DataPaths, partition_date \in Dates \cup {NoneDate},
       override \in BOOLEAN :
        Commit(load_from_cloud(World, "b1", "ds", "t", remote_folder,
                               remote_folder, partition_date, "date",
                               <<"*", ".gz">>, override),
               "load_from_cloud",
               [bucket |-> "b1", data_set |-> "ds", table |-> "t",
                remote_folder |-> remote_folder,
                partition_date |-> partition_date, partition_name |-> "date",
                override |-> override])

LoadFromLocal ==
    \E local_folder \in DataPaths, partition_date \in Dates \cup {NoneDate},
       file_mask \in FileMasks, override \in BOOLEAN :
        Commit(load_from_local(World, "b1", "ds", "t", local_folder, <<>>,
                               partition_date, "date", file_mask, override),
               "load_from_local",
               [bucket |-> "b1", data_set |-> "ds", table |-> "t",
                local_folder |-> local_folder,
                partition_date |-> partition_date, partition_name |-> "date",
                file_mask |-> file_mask, override |-> override])

LoadNext ==
    \/ LoadFromCloud
    \/ LoadFromLocal
    \/ TakeResult

SpecLoad == LoadInit /\ [][LoadNext]_vars

----------------------------------------------------------------------------
(* BigQuery.delete_partition and create_table_from_schema as actions *)

Folders == {"t", "u"}
Datasets == {None, "ds2"}
TableIds == {TableId(d, f) : d \in {"ds", "ds2"}, f \in Folders}
PartitionNames == {"date", "report_date"}

\* /data/<folder>/schema.json for some of the folders
SchemaFolders ==
    {(<<"/", "data", "/">> :> Directory)
        @@ Entry(<<"/", "data", "/", "t", "/">> \o SchemaJson, t)
        @@ Entry(<<"/", "data", "/", "u", "/">> \o SchemaJson, u) :
        t \in {Absent, CsvText}, u \in {Absent, JsonText}}

TablesInit ==
    /\ ListIdleInit
    /\ call = NoCall
    /\ log = <<>>
    /\ created = EmptyMap
    /\ tables \in SUBSET {TableId("ds", "t"), TableId("ds2", "u")}
    /\ files \in SchemaFolders
    /\ buckets = [b \in BucketNames |-> EmptyMap]

DeletePartition ==
    \E table_id \in TableIds, partition_date \in Dates \cup {NoneDate},
       partition_name \in PartitionNames :
        Commit(delete_partition(World, table_id, partition_date,
                                partition_name),
               "delete_partition",
               [table_id |-> table_id, partition_date |-> partition_date,
                partition_name |-> partition_name])

CreateTableFromSchema ==
    \E folder \in Folders, dataset \in Datasets,
       data_path \in {NonePath, <<"/", "data", "/">>, <<"/", "tmp", "/">>} :
        /\ \A t \in DOMAIN created : created[t] < MaxCreateCalls
        /\ Commit(create_table_from_schema(World, folder, dataset, data_path),
                  "create_table_from_schema",
                  [folder |-> folder, dataset |-> dataset,
                   data_path |-> data_path])

TablesNext ==
    \/ DeletePartition
    \/ CreateTableFromSchema
    \/ TakeResult

SpecTables == TablesInit /\ [][TablesNext]_vars

----------------------------------------------------------------------------
(* C1 *)

\* the pages of the non-empty responses, in the order they were given
RECURSIVE PagesOf(_)
PagesOf(rs) ==
    IF rs = <<>> THEN <<>>
    ELSE IF Head(rs).hasKey /\ Head(rs).results # <<>>
         THEN <<Head(rs).results>> \o PagesOf(Tail(rs))
         ELSE <<>>

\* C1: when a list call of AudienceService.list, AudienceService.list_all or
\* CustomTargetingService.list has returned, the service answered it with k
\* non-empty pages followed by one page that is empty or has no 'results'
\* key, the call returned exactly the items of the k pages concatenated in
\* page order, and it issued exactly k+1 requests.
C1_ListConcatenatesPages ==
    (pc = "done" /\ call.op \in ListMethods) =>
        LET k == Len(PagesOf(responses)) IN
        /\ Len(responses) = k + 1
        /\ (~responses[k + 1].hasKey \/ responses[k + 1].results = <<>>)
        /\ call.ret = Flatten(PagesOf(responses))
        /\ Len(log) = k + 1

\* a call that returned after two non-empty pages and a response without key
C1_Witness ==
    /\ pc = "done"
    /\ call.op = "CustomTargetingService.list"
    /\ Len(responses) = 3
    /\ ~responses[3].hasKey
    /\ Len(call.ret) = 3

----------------------------------------------------------------------------
(* C2 *)

UploadOps == {"upload", "upload_from_string", "upload_file_from_filename"}

\* the blob writes an invocation asked the storage service for
BlobWrites(l) ==
    Calls(l, "blob.upload_from_string") \o Calls(l, "blob.upload_from_filename")

\* C2: upload, upload_from_string and upload_file_from_filename called with
\* override=False for a blob name that exists in the bucket write nothing
\* and leave every blob as it was; when the blob does not exist, or override
\* is True, they ask for exactly one write, of that blob, and a write that
\* succeeds leaves the given data in it and every other blob as it was.
C2_UploadRespectsOverride ==
    call.op \in UploadOps =>
        LET a == call.args
            existed == a.name \in DOMAIN call.pre.buckets[a.bucket]
            writes == BlobWrites(log)
        IN  IF ~a.override /\ existed
            THEN /\ writes = <<>>
                 /\ buckets = call.pre.buckets
            ELSE /\ Len(writes) = 1
                 /\ writes[1].bucket = a.bucket
                 /\ writes[1].name = a.name
                 /\ call.raised = None =>
                      /\ a.name \in DOMAIN buckets[a.bucket]
                      /\ buckets[a.bucket][a.name] =
                            (IF call.op = "upload_file_from_filename"
                             THEN files[a.path] ELSE a.data)
                      /\ \A b \in BucketNames :
                           \A n \in DOMAIN call.pre.buckets[b] :
                             (b # a.bucket \/ n # a.name) =>
                                /\ n \in DOMAIN buckets[b]
                                /\ buckets[b][n] = call.pre.buckets[b][n]

\* upload_from_string with override=False found the blob and left it alone
C2_Witness ==
    /\ call.op = "upload_from_string"
    /\ ~call.args.override
    /\ call.args.name \in DOMAIN call.pre.buckets[call.args.bucket]
    /\ call.pre.buckets[call.args.bucket][call.args.name] = [text |-> "old"]
    /\ buckets[call.args.bucket][call.args.name] = [text |-> "old"]

----------------------------------------------------------------------------
(* C3 *)

\* the copies an invocation performed
CopiesDone(l) == {i \in 1..Len(l) : l[i].api = "copy_blob" /\ l[i].ok}

\* C3: copy_file returns True exactly when it performed the copy.  For a
\* source blob that exists: when the destination bucket has no blob of that
\* name, or override is True, it copies the blob (the destination then holds
\* the source's content) and returns True; otherwise it returns False and
\* leaves every bucket unchanged.
C3_CopyFileReturnsWhetherCopied ==
    call.op = "copy_file" =>
        LET a == call.args
            existed == a.name \in DOMAIN call.pre.buckets[a.destination]
            source == a.name \in DOMAIN call.pre.buckets[a.bucket]
        IN  /\ (call.ret = PyTrue) <=> (CopiesDone(log) # {})
            /\ Cardinality(CopiesDone(log)) <= 1
            /\ (source /\ (~existed \/ a.override)) =>
                  /\ call.ret = PyTrue
                  /\ a.name \in DOMAIN buckets[a.destination]
                  /\ buckets[a.destination][a.name] =
                        call.pre.buckets[a.bucket][a.name]
            /\ (existed /\ ~a.override) =>
                  /\ call.ret = PyFalse
                  /\ buckets = call.pre.buckets
            /\ CopiesDone(log) = {} => buckets = call.pre.buckets

\* copy_file found the name in the destination, override=False: no copy
C3_Witness ==
    /\ call.op = "copy_file"
    /\ call.ret = PyFalse
    /\ call.args.bucket # call.args.destination
    /\ call.args.name \in DOMAIN call.pre.buckets[call.args.bucket]
    /\ call.pre.buckets[call.args.bucket][call.args.name] #
          call.pre.buckets[call.args.destination][call.args.name]

----------------------------------------------------------------------------
(* C4 *)

\* C4: delete_files(bucket, prefix) deletes every blob of the bucket whose
\* name starts with prefix and no other blob: afterwards list_files(bucket,
\* prefix) is empty, and every blob outside the prefix and every blob of the
\* other buckets is unchanged.
C4_DeleteFilesFrame ==
    call.op = "delete_files" =>
        LET a == call.args IN
        /\ list_files(World, a.bucket, a.prefix).ret = <<>>
        /\ DOMAIN buckets[a.bucket] =
              {n \in DOMAIN call.pre.buckets[a.bucket] :
                  ~(\E rest \in SeqUpTo({"x", "y", "z"}, 2) :
                        n = a.prefix \o rest)}
        /\ \A n \in DOMAIN buckets[a.bucket] :
              buckets[a.bucket][n] = call.pre.buckets[a.bucket][n]
        /\ \A b \in BucketNames \ {a.bucket} :
              buckets[b] = call.pre.buckets[b]

\* a delete under prefix "x" that removed two blobs and kept the third
C4_Witness ==
    /\ call.op = "delete_files"
    /\ call.args.prefix = <<"x">>
    /\ DOMAIN call.pre.buckets[call.args.bucket] = BlobNames
    /\ DOMAIN buckets[call.args.bucket] = {<<"z">>}
    /\ Len(Calls(log, "blob.delete")) = 2

----------------------------------------------------------------------------
(* C5 *)

StorageCalls(l) == {i \in 1..Len(l) : l[i].api \in
                       {"blob.download_as_string", "blob.exists", "list_blobs",
                        "blob.upload_from_string", "blob.upload_from_filename",
                        "blob.delete", "copy_blob"}}

\* C5: build_job_config downloads schema.json from Cloud Storage only when
\* no file exists at data_path + 'schema.json', and copies it into the
\* partition folder only when that folder has no schema.json; when both
\* local schema files exist it makes no Cloud Storage request; and it never
\* overwrites a local file that existed.
C5_SchemaCache ==
    call.op = "build_job_config" =>
        LET a == call.args
            schema_path == a.data_path \o SchemaJson
            partition_schema_path ==
                a.data_path \o Strftime(a.partition_date) \o <<"/">>
                    \o SchemaJson
            downloads == Calls(log, "blob.download_as_string")
            copies == Calls(log, "shutil.copy")
        IN  /\ downloads # <<>> =>
                  /\ schema_path \notin DOMAIN call.pre.files
                  /\ Len(downloads) = 1
                  /\ downloads[1].destination = schema_path
            /\ copies # <<>> =>
                  /\ partition_schema_path \notin DOMAIN call.pre.files
                  /\ Len(copies) = 1
                  /\ copies[1].dst = partition_schema_path
                  /\ copies[1].src = schema_path
            /\ ({schema_path, partition_schema_path}
                    \subseteq DOMAIN call.pre.files) =>
                  /\ StorageCalls(log) = {}
                  /\ files = call.pre.files
            /\ \A path \in DOMAIN call.pre.files :
                  /\ path \in DOMAIN files
                  /\ files[path] = call.pre.files[path]
            /\ buckets = call.pre.buckets

\* schema.json was missing in both places: downloaded, then copied
C5_Witness ==
    /\ call.op = "build_job_config"
    /\ call.raised = None
    /\ Len(Calls(log, "blob.download_as_string")) = 1
    /\ Len(Calls(log, "shutil.copy")) = 1
    /\ (call.args.data_path \o SchemaJson) \notin DOMAIN call.pre.files
    /\ files[call.args.data_path \o SchemaJson].layout = "dumps"

----------------------------------------------------------------------------
(* C6 *)

\* the dates of the model as YYYY-MM-DD
DateText(date) ==
    IF date = [year |-> 2024, month |-> 1, day |-> 5]
    THEN <<"2", "0", "2", "4", "-", "0", "1", "-", "0", "5">>
    ELSE IF date = [year |-> 2023, month |-> 12, day |-> 31]
    THEN <<"2", "0", "2", "3", "-", "1", "2", "-", "3", "1">>
    ELSE <<"?">>

\* the last directory of a path that ends with "/"
LastDirectory(path) ==
    LET inner == SubSeq(path, 1, Len(path) - 1)
        names == {i \in 0..Len(inner) :
                    \A j \in (i + 1)..Len(inner) : inner[j] # "/"}
        from == CHOOSE i \in names : \A j \in names : i <= j
    IN  SubSeq(inner, from + 1, Len(inner))

\* C6: for every partition date d, a build_job_config that returns gives
\* write disposition WRITE_APPEND and the source uri
\* gs://<bucket>/<last directory of data_path>/<d as YYYY-MM-DD>/<pattern>;
\* for a schema whose source_format is CSV the pattern is *.csv.gz and the
\* configuration is CSV with the schema's field_delimiter and
\* skip_leading_rows; for any other source_format the pattern is *.json.gz
\* and the format NEWLINE_DELIMITED_JSON.
C6_PartitionUriAndFormat ==
    (/\ call.op = "build_job_config"
     /\ call.raised = None
     /\ call.args.partition_date \in Dates) =>
        LET a == call.args
            cfg == call.ret.job_config
            schema == files[a.data_path \o DateText(a.partition_date)
                               \o <<"/">> \o SchemaJson].json
            prefix == <<"gs://", a.bucket, "/">> \o LastDirectory(a.data_path)
                         \o <<"/">> \o DateText(a.partition_date) \o <<"/">>
        IN  /\ cfg.write_disposition = "WRITE_APPEND"
            /\ IF schema.source_format = "CSV"
               THEN /\ call.ret.uri = prefix \o <<"*", ".csv", ".gz">>
                    /\ cfg.source_format = "CSV"
                    /\ cfg.field_delimiter = schema.field_delimiter
                    /\ cfg.skip_leading_rows = schema.skip_leading_rows
               ELSE /\ call.ret.uri = prefix \o <<"*", ".json", ".gz">>
                    /\ cfg.source_format = "NEWLINE_DELIMITED_JSON"

\* a CSV configuration for 2024-01-05 below /data/t/
C6_Witness ==
    /\ call.op = "build_job_config"
    /\ call.raised = None
    /\ call.args.data_path = <<"/", "data", "/", "t", "/">>
    /\ call.ret.uri = <<"gs://", "b1", "/", "t", "/", "2", "0", "2", "4", "-",
                        "0", "1", "-", "0", "5", "/", "*", ".csv", ".gz">>
    /\ call.ret.job_config.field_delimiter = ","

----------------------------------------------------------------------------
(* C7 *)

\* positions of the calls of a log made on one SDK method
At(l, api) == {i \in 1..Len(l) : l[i].api = api}

\* C7: in a load_from_cloud (run directly or as the last step of
\* load_from_local) with override=True, delete_partition runs before the
\* load job is submitted: the table is looked up and, when it exists, the
\* DELETE query for the partition date is issued and waited for before
\* load_table_from_uri; with override=False no lookup and no query is made;
\* and True is returned only when the last thing done was waiting for the
\* result of the one load job submitted.
C7_DeleteBeforeLoad ==
    call.op \in {"load_from_cloud", "load_from_local"} =>
        LET a == call.args
            table_id == <<a.data_set, ".", a.table>>
            lookups == At(log, "client.get_table")
            queries == At(log, "client.query")
            waits == At(log, "query_job.result")
            loads == At(log, "client.load_table_from_uri")
        IN  /\ a.override =>
                \A i \in loads :
                    /\ \E j \in lookups : j < i /\ log[j].table = table_id
                    /\ table_id \in call.pre.tables =>
                          \E j \in queries, k \in waits :
                              /\ j < k /\ k < i
                              /\ log[j].query =
                                    <<"DELETE FROM ">> \o table_id
                                    \o <<" WHERE ", a.partition_name, " = ", "'">>
                                    \o DateText(a.partition_date) \o <<"'">>
            /\ ~a.override => lookups = {} /\ queries = {}
            /\ Cardinality(loads) <= 1
            /\ call.ret = PyTrue =>
                  /\ Cardinality(loads) = 1
                  /\ log[Len(log)].api = "load_job.result"
                  /\ Len(log) - 1 \in loads

\* a load_from_cloud with override=True on an existing table that returned
C7_Witness ==
    /\ call.op = "load_from_cloud"
    /\ call.args.override
    /\ call.ret = PyTrue
    /\ TableId("ds", "t") \in call.pre.tables
    /\ At(log, "client.query") # {}

----------------------------------------------------------------------------
(* C8 *)

\* the folder load_from_local uploads to
DestFolder(a) ==
    IF a.partition_date = NoneDate THEN <<a.table, "/">>
    ELSE <<a.table, "/">> \o DateText(a.partition_date) \o <<"/">>

\* the folder load_from_local uploads from
SourceFolder(a) ==
    IF a.partition_date = NoneDate THEN a.local_folder
    ELSE a.local_folder \o DateText(a.partition_date) \o <<"/">>

\* C8: load_from_local works in this order: with override=True it first
\* deletes every blob under <table>/<partition date>/, then it makes sure
\* the schema file exists locally, then it uploads the matching files of the
\* local partition folder to <table>/<partition date>/, and only then runs
\* load_from_cloud; the load job is never submitted before the upload step
\* has finished, and with override=False no blob is deleted.
C8_LoadFromLocalOrder ==
    call.op = "load_from_local" =>
        LET a == call.args
            lists == At(log, "list_blobs")
            deletes == At(log, "blob.delete")
            ensures ==
                {i \in At(log, "blob.download_as_string") :
                    log[i].destination = a.local_folder \o SchemaJson}
                \cup {i \in At(log, "shutil.copy") :
                        log[i].dst = SourceFolder(a) \o SchemaJson}
            globs == At(log, "glob")
            uploads == At(log, "blob.exists")
                          \cup At(log, "blob.upload_from_filename")
            loading == At(log, "client.get_table") \cup At(log, "client.query")
                          \cup At(log, "client.load_table_from_uri")
        IN  /\ ~a.override =>
                  /\ lists = {} /\ deletes = {}
                  /\ \A n \in DOMAIN call.pre.buckets[a.bucket] :
                        n \in DOMAIN buckets[a.bucket]
            /\ a.override =>
                  /\ log[1].api = "list_blobs"
                  /\ log[1].prefix = DestFolder(a)
                  /\ deletes = 2..(Cardinality(deletes) + 1)
                  /\ {log[i].name : i \in deletes} =
                        {n \in DOMAIN call.pre.buckets[a.bucket] :
                            /\ Len(n) >= Len(DestFolder(a))
                            /\ \A i \in 1..Len(DestFolder(a)) :
                                  n[i] = DestFolder(a)[i]}
            /\ Cardinality(globs) <= 1
            /\ \A g \in globs :
                  /\ (a.local_folder \o SchemaJson) \in DOMAIN files
                  /\ log[g].folder = SourceFolder(a)
                  /\ \A i \in lists \cup deletes \cup ensures : i < g
                  /\ \A i \in uploads : g < i
            /\ \A i \in ensures :
                  log[i].api = "blob.download_as_string" =>
                      /\ log[i].name = <<a.table, "/">> \o SchemaJson
                      /\ (a.local_folder \o SchemaJson)
                            \notin DOMAIN call.pre.files
            /\ \A i \in uploads :
                  /\ globs # {}
                  /\ \E rest \in {<<"f1", ".csv", ".gz">>,
                                  <<"f2", ".json", ".gz">>} :
                        /\ log[i].name = DestFolder(a) \o rest
                        /\ (SourceFolder(a) \o rest) \in DOMAIN call.pre.files
                  /\ \A j \in loading : i < j
            /\ \A j \in loading :
                  /\ globs # {}
                  /\ \A path \in DOMAIN call.pre.files :
                        \A name \in {<<"f1", ".csv", ".gz">>,
                                     <<"f2", ".json", ".gz">>} :
                            (/\ path = SourceFolder(a) \o name
                             /\ \E k \in 0..1 :
                                   SubSeq(name, 2 + k, 3) =
                                       Tail(a.file_mask)) =>
                                \E i \in At(log, "blob.exists") :
                                    /\ i < j
                                    /\ log[i].name = DestFolder(a) \o name

\* override=True: an old blob deleted, the schema downloaded, a file
\* uploaded, the load job run
C8_Witness ==
    /\ call.op = "load_from_local"
    /\ call.args.override
    /\ call.ret = PyTrue
    /\ At(log, "blob.delete") # {}
    /\ At(log, "blob.download_as_string") # {}
    /\ At(log, "blob.upload_from_filename") # {}

----------------------------------------------------------------------------
(* C9 *)

\* C9: delete_partition returns False and issues no query when the table
\* does not exist; when the table exists it issues exactly one query,
\* DELETE FROM <table_id> WHERE <partition_name> = '<date as YYYY-MM-DD>',
\* waits for its result and returns True.
C9_DeletePartition ==
    call.op = "delete_partition" =>
        LET a == call.args
            queries == At(log, "client.query")
            waits == At(log, "query_job.result")
        IN  /\ a.table_id \notin call.pre.tables =>
                  /\ call.ret = PyFalse
                  /\ queries = {} /\ waits = {}
            /\ (a.table_id \in call.pre.tables /\ a.partition_date \in Dates) =>
                  /\ call.ret = PyTrue
                  /\ Cardinality(queries) = 1
                  /\ \A i \in queries :
                        /\ log[i].query =
                              <<"DELETE FROM ">> \o a.table_id
                              \o <<" WHERE ", a.partition_name, " = ", "'">>
                              \o DateText(a.partition_date) \o <<"'">>
                        /\ waits = {i + 1}
                        /\ Len(log) = i + 1
            /\ tables = call.pre.tables

\* the partition 2023-12-31 of an existing table deleted by report_date
C9_Witness ==
    /\ call.op = "delete_partition"
    /\ call.ret = PyTrue
    /\ call.args.partition_name = "report_date"
    /\ call.args.partition_date = OtherDate
    /\ At(log, "client.query") # {}

----------------------------------------------------------------------------
(* C10 *)

\* the table create_table_from_schema is asked for
RequestedTable(a) ==
    <<IF a.dataset = None THEN "ds" ELSE a.dataset, ".", a.folder>>

\* the schema file create_table_from_schema reads
RequestedSchema(a) ==
    (IF a.data_path = NonePath THEN <<"/", "data", "/">> ELSE a.data_path)
        \o <<a.folder, "/", "schema.json">>

\* C10: create_table_from_schema returns False, without reading the schema
\* file and without calling create_table, when the table exists; when the
\* table does not exist and its schema file can be read it creates the table
\* and returns True; it returns True only after creating the table; and over
\* any run of calls create_table is called at most once for a table.
C10_CreateTableOnce ==
    /\ \A t \in DOMAIN created : created[t] <= 1
    /\ call.op = "create_table_from_schema" =>
        LET a == call.args
            id == RequestedTable(a)
            creations == At(log, "client.create_table")
        IN  /\ id \in call.pre.tables =>
                  /\ call.ret = PyFalse
                  /\ At(log, "open") = {}
                  /\ creations = {}
                  /\ tables = call.pre.tables
            /\ (id \notin call.pre.tables
                    /\ RequestedSchema(a) \in DOMAIN call.pre.files) =>
                  /\ call.ret = PyTrue
                  /\ Cardinality(creations) = 1
            /\ call.ret = PyTrue =>
                  /\ id \notin call.pre.tables
                  /\ id \in tables
                  /\ \E i \in creations : log[i].table = id /\ log[i].ok
                  /\ tables = call.pre.tables \cup {id}
            /\ call.ret # PyTrue => tables = call.pre.tables

\* the second of two calls for a table the first one created
C10_Witness ==
    /\ call.op = "create_table_from_schema"
    /\ call.ret = PyFalse
    /\ RequestedTable(call.args) \in DOMAIN created
    /\ created[RequestedTable(call.args)] = 1

----------------------------------------------------------------------------
(* BigQuery.create_external_table *)

\* str.upper() on the source formats that occur
UpperCase(s) ==
    CASE s = "csv" -> "CSV"
      [] s = "Csv" -> "CSV"
      [] s = "newline_delimited_json" -> "NEWLINE_DELIMITED_JSON"
      [] OTHER -> s

\* `str(table_schema.get("source_format", "")).upper() == "CSV"`
ExternalSourceFormat(table_schema) ==
    IF UpperCase(IF "source_format" \in DOMAIN table_schema
                 THEN table_schema.source_format ELSE "") = "CSV"
    THEN CSV ELSE NEWLINE_DELIMITED_JSON

\* the loop over the fields: a field named report_date becomes the partition
\* field, and a field named as the partition field turns partitioning on
RECURSIVE ExternalPartitioning(_, _, _)
ExternalPartitioning(fields, partition_field, time_partioning) ==
    IF fields = <<>>
    THEN [field |-> partition_field, on |-> time_partioning]
    ELSE LET pf == IF Head(fields).name = "report_date"
                   THEN "report_date" ELSE partition_field
         IN  ExternalPartitioning(Tail(fields), pf,
                                  time_partioning \/ Head(fields).name = pf)

CsvOptionKeys ==
    <<"field_delimiter", "skip_leading_rows", "allow_jagged_rows",
      "allow_quoted_newlines">>

\* the table handed to client.create_table
ExternalTable(dataset_name, table_name, table_schema, source_uris, partitioning) ==
    [api |-> "client.create_table",
     table |-> TableId(dataset_name, table_name),
     schema |-> SchemaFields(table_schema.table_schema),
     partition_field |-> IF partitioning.on THEN partitioning.field ELSE None,
     external |-> [source_format |-> CSV, source_uris |-> source_uris,
                   csv_options |-> [k \in {CsvOptionKeys[i] : i \in 1..4} |->
                                       table_schema[k]]]]

create_external_table(w, dataset_name, table_name, table_schema, source_uris, partition_field, time_partioning) ==
    IF "table_schema" \notin DOMAIN table_schema THEN Raise(w, "KeyError")
    ELSE
    LET partitioning == ExternalPartitioning(table_schema.table_schema,
                                             partition_field, time_partioning)
        table == ExternalTable(dataset_name, table_name, table_schema,
                               source_uris, partitioning)
    IN  IF ExternalSourceFormat(table_schema) = CSV
        THEN IF \E i \in 1..4 : CsvOptionKeys[i] \notin DOMAIN table_schema
             THEN Raise(w, "KeyError")
             ELSE IF table.table \in w.tables
             THEN Raise(Logged(w, [table EXCEPT !.external = None]
                                     @@ [ok |-> FALSE]), "Conflict")
             ELSE Return([Logged(w, table @@ [ok |-> TRUE])
                          EXCEPT !.tables = @ \cup {table.table}], PyTrue)
        ELSE Return(w, PyFalse)

\* the schema dictionaries given to create_external_table
ReportSchema == <<[name |-> "report_date", type |-> "DATE", mode |-> "NULLABLE"]>>

ExternalSchemas ==
    SchemaDocuments
      \cup {[SchemaDocument("csv", ",", 1) EXCEPT !.table_schema = ReportSchema],
            [table_schema |-> TableSchema],
            [table_schema |-> TableSchema, source_format |-> CSV],
            [source_format |-> CSV]}

SourceUris == {<<"gs://b1/t/*.csv">>, <<"gs://b1/t/a.json", "gs://b1/t/b.json">>}

ExternalInit ==
    /\ ListIdleInit
    /\ call = NoCall
    /\ log = <<>>
    /\ created = EmptyMap
    /\ tables \in SUBSET {TableId("ds", "t"), TableId("ds2", "u")}
    /\ files = EmptyMap
    /\ buckets = [b \in BucketNames |-> EmptyMap]

CreateExternalTable ==
    \E dataset_name \in {"ds", "ds2"}, table_name \in Folders,
       table_schema \in ExternalSchemas, source_uris \in SourceUris,
       partition_field \in {"date", "col1"}, time_partioning \in BOOLEAN :
        /\ \A t \in DOMAIN created : created[t] < MaxCreateCalls
        /\ Commit(create_external_table(World, dataset_name, table_name,
                                        table_schema, source_uris,
                                        partition_field, time_partioning),
                  "create_external_table",
                  [dataset_name |-> dataset_name, table_name |-> table_name,
                   table_schema |-> table_schema, source_uris |-> source_uris,
                   partition_field |-> partition_field,
                   time_partioning |-> time_partioning])

ExternalNext ==
    \/ CreateExternalTable
    \/ TakeResult

SpecExternal == ExternalInit /\ [][ExternalNext]_vars

\* C11: create_external_table creates the external table and returns True
\* for every table_schema it accepts (no exception), whether the schema's
\* source_format is CSV or newline-delimited JSON; it returns True if and
\* only if create_table was called.
C11_ExternalTableCreated ==
    (call.op = "create_external_table" /\ call.raised = None) =>
        /\ call.ret = PyTrue
        /\ TableId(call.args.dataset_name, call.args.table_name) \in tables
        /\ At(log, "client.create_table") # {}

----------------------------------------------------------------------------
(* Utils.ListHelper.  Python values are tagged: an int, a str (its text as  *)
(* a sequence of tokens), a list of values, None.                           *)

PyInt(i) == [int |-> i]
PyString(s) == [str |-> s]
PyList(l) == [list |-> l]
PyNone == [none |-> None]

\* isinstance(value, int), isinstance(value, str), isinstance(value, list)
IsInt(value) == "int" \in DOMAIN value
IsStr(value) == "str" \in DOMAIN value
IsList(value) == "list" \in DOMAIN value

MaxLen == 3
MaxChunk == 3

\* the outcome of a call of a function: its value, or the exception raised
Returned(value) == [ret |-> value, raised |-> None]
Raised(exception) == [ret |-> None, raised |-> exception]

\* lst[i:j] for 0 <= i <= j, positions counted from 0
PySlice(lst, i, j) ==
    SubSeq(lst, i + 1, IF j < Len(lst) THEN j ELSE Len(lst))

\* range(0, stop, step) as a sequence; empty when step < 0
PyRange(stop, step) ==
    IF step < 0 THEN <<>>
    ELSE LET count == (stop + step - 1) \div step
         IN  [k \in 1..count |-> (k - 1) * step]

\* `lst[i : i + n]`
ChunkShort(lst, i, n) == PySlice(lst, i, i + n - 1)
Chunk(lst, i, n) == PySlice(lst, i, i + n)

\* `[lst[i : i + n] for i in range(0, len(lst), n)]`; range() refuses step 0
chunk_list(lst, n) ==
    IF n = 0 THEN Raised("ValueError")
    ELSE LET starts == PyRange(Len(lst), n)
         IN  Returned(PyList([k \in 1..Len(starts) |->
                                PyList(Chunk(lst, starts[k], n))]))

Elements == {PyInt(1), PyInt(2), PyString(<<"a">>)}
Lists == SeqUpTo(Elements, MaxLen)

ListHelperInit ==
    /\ ListIdleInit
    /\ call = NoCall
    /\ log = <<>>
    /\ created = EmptyMap
    /\ tables = {}
    /\ files = EmptyMap
    /\ buckets = [b \in BucketNames |-> EmptyMap]

\* the record of a finished call of a function that touches no storage
Finish(op, args, outcome) ==
    /\ call = NoCall
    /\ call' = [op |-> op, args |-> args] @@ outcome
    /\ UNCHANGED <<log, listVars, buckets, files, tables, created>>

ChunkList ==
    /\ call = NoCall
    /\ \E lst \in Lists, n \in -1..MaxChunk :
           Finish("chunk_list", [lst |-> lst, n |-> n], chunk_list(lst, n))

\* `if isinstance(lst2, (str, int)): lst2 = [lst2]`, `if lst2 is None: lst2 = []`
SecondList(lst2) ==
    IF IsStr(lst2) \/ IsInt(lst2) THEN <<lst2>>
    ELSE IF lst2 = PyNone THEN <<>>
    ELSE lst2.list

\* the list object `merged` names: `merged = list(lst1)` makes a new one
MergedIsFirstList(objects) == "lst1"
Merged(objects) == "merged"

\* list(dict.fromkeys(keys)): each key once, where it first occurs
RECURSIVE DictFromKeys(_, _)
DictFromKeys(keys, seen) ==
    IF keys = <<>> THEN seen
    ELSE DictFromKeys(Tail(keys),
                      IF \E i \in 1..Len(seen) : seen[i] = Head(keys)
                      THEN seen ELSE Append(seen, Head(keys)))

\* a list is not hashable
Hashable(value) == ~IsList(value)

\* the outcome, with the list object handed in as lst1 as the call leaves it
merge_list(lst1, lst2) ==
    LET objects == [lst1 |-> lst1.list, merged |-> lst1.list]
        merged == Merged(objects)
        extended == [objects EXCEPT ![merged] = @ \o SecondList(lst2)]
    IN  (IF \A i \in 1..Len(extended[merged]) : Hashable(extended[merged][i])
         THEN Returned(PyList(DictFromKeys(extended[merged], <<>>)))
         ELSE Raised("TypeError"))
        @@ [after |-> [lst1 |-> PyList(extended.lst1)]]

SecondArguments ==
    {PyList(l) : l \in Lists} \cup Elements
        \cup {PyNone, PyList(<<PyList(<<>>)>>)}

MergeList ==
    /\ call = NoCall
    /\ \E lst1 \in Lists, lst2 \in SecondArguments :
           Finish("merge_list", [lst1 |-> PyList(lst1), lst2 |-> lst2],
                  merge_list(PyList(lst1), lst2))

\* The texts handed to convert_list are sequences of these tokens: the
\* brackets and the comma, int literals, a quoted string, a bare name.
IntTokens == {"1", "2"}
StrTokens == {"'a'"}
NameTokens == {"x"}
Tokens == {"[", "]", ","} \cup IntTokens \cup StrTokens \cup NameTokens

MaxTokens == 4

\* the value of an int literal, the text of a quoted string
IntOf(token) == CASE token = "1" -> 1 [] token = "2" -> 2
TextOf(token) == CASE token = "'a'" -> <<"a">>

Failed == [ok |-> FALSE]
Parsed(value, rest) == [ok |-> TRUE, value |-> value, rest |-> rest]

\* adjacent string literals are one string
RECURSIVE ParseStrings(_, _)
ParseStrings(tokens, text) ==
    IF tokens # <<>> /\ Head(tokens) \in StrTokens
    THEN ParseStrings(Tail(tokens), text \o TextOf(Head(tokens)))
    ELSE Parsed(PyString(text), tokens)

\* One expression without a top-level comma: a constant, a name or a list
\* display (a comma may follow its last item).  A list display directly
\* after another expression is a subscript, which is no literal: it fails
\* like a syntax error, and convert_list catches both alike.
RECURSIVE ParseExpr(_)
RECURSIVE ParseItems(_, _)
ParseExpr(tokens) ==
    IF tokens = <<>> THEN Failed
    ELSE CASE Head(tokens) \in IntTokens ->
                Parsed(PyInt(IntOf(Head(tokens))), Tail(tokens))
           [] Head(tokens) \in StrTokens -> ParseStrings(tokens, <<>>)
           [] Head(tokens) \in NameTokens ->
                Parsed([name |-> Head(tokens)], Tail(tokens))
           [] Head(tokens) = "[" -> ParseItems(Tail(tokens), <<>>)
           [] OTHER -> Failed

\* what follows "[" or a comma inside a list display
ParseItems(tokens, items) ==
    IF tokens = <<>> THEN Failed
    ELSE IF Head(tokens) = "]" THEN Parsed(PyList(items), Tail(tokens))
    ELSE LET item == ParseExpr(tokens) IN
         IF ~item.ok THEN Failed
         ELSE IF item.rest = <<>> THEN Failed
         ELSE IF Head(item.rest) = ","
         THEN ParseItems(Tail(item.rest), Append(items, item.value))
         ELSE IF Head(item.rest) = "]"
         THEN Parsed(PyList(Append(items, item.value)), Tail(item.rest))
         ELSE Failed

\* what follows a comma at top level: the expression is a tuple
RECURSIVE ParseTuple(_, _)
ParseTuple(tokens, items) ==
    IF tokens = <<>> THEN Parsed([tuple |-> items], <<>>)
    ELSE LET item == ParseExpr(tokens) IN
         IF ~item.ok THEN Failed
         ELSE IF item.rest = <<>>
         THEN Parsed([tuple |-> Append(items, item.value)], <<>>)
         ELSE IF Head(item.rest) = ","
         THEN ParseTuple(Tail(item.rest), Append(items, item.value))
         ELSE Failed

\* ast.parse(text, mode="eval")
ParseExpression(tokens) ==
    LET first == ParseExpr(tokens) IN
    IF ~first.ok THEN Failed
    ELSE IF first.rest = <<>> THEN first
    ELSE IF Head(first.rest) = ","
    THEN ParseTuple(Tail(first.rest), <<first.value>>)
    ELSE Failed

\* a name somewhere in the parsed expression: a malformed node
RECURSIVE HasName(_)
HasName(value) ==
    \/ "name" \in DOMAIN value
    \/ /\ IsList(value)
       /\ \E i \in 1..Len(value.list) : HasName(value.list[i])
    \/ /\ "tuple" \in DOMAIN value
       /\ \E i \in 1..Len(value.tuple) : HasName(value.tuple[i])

\* ast.literal_eval(text)
literal_eval(tokens) ==
    LET node == ParseExpression(tokens) IN
    IF ~node.ok THEN Raised("SyntaxError")
    ELSE IF HasName(node.value) THEN Raised("ValueError")
    ELSE Returned(node.value)

convert_list(val) ==
    IF IsStr(val)
    THEN LET outcome == literal_eval(val.str) IN
         IF outcome.raised \in {"ValueError", "SyntaxError"}
         THEN Returned(val) ELSE outcome
    ELSE Returned(val)

ConvertList ==
    /\ call = NoCall
    /\ \E val \in {PyString(t) : t \in SeqUpTo(Tokens, MaxTokens)}
                   \cup {PyList(l) : l \in Lists} \cup {PyInt(1), PyNone} :
           Finish("convert_list", [val |-> val], convert_list(val))

ListHelperNext ==
    \/ ChunkList
    \/ MergeList
    \/ ConvertList
    \/ TakeResult

SpecListHelper == ListHelperInit /\ [][ListHelperNext]_vars
----------------------------------------------------------------------------
(* Claims about ListHelper *)

\* the chunks of a returned list of chunks
ChunksOf(ret) == [k \in 1..Len(ret.list) |-> ret.list[k].list]

\* C12: for every list lst and every chunk size n >= 1, chunk_list(lst, n)
\* returns chunks whose concatenation in order equals lst; every chunk
\* except possibly the last has exactly n elements, the last has between 1
\* and n elements, and the empty list yields no chunk.
C12_ChunkList ==
    (call.op = "chunk_list" /\ call.args.n >= 1) =>
        /\ call.raised = None
        /\ LET chunks == ChunksOf(call.ret)
               n == call.args.n
           IN  /\ Flatten(chunks) = call.args.lst
               /\ \A k \in 1..Len(chunks) - 1 : Len(chunks[k]) = n
               /\ chunks # <<>> =>
                    /\ Len(chunks[Len(chunks)]) >= 1
                    /\ Len(chunks[Len(chunks)]) <= n
               /\ call.args.lst = <<>> => chunks = <<>>

\* a list cut into a full chunk and a shorter last one
C12_Witness ==
    /\ call.op = "chunk_list"
    /\ call.raised = None
    /\ Len(call.ret.list) = 2
    /\ Len(call.ret.list[1].list) = 2
    /\ Len(call.ret.list[2].list) = 1

\* the positions of `keys` that hold the first occurrence of their element
FirstOccurrences(keys) ==
    {i \in 1..Len(keys) : \A j \in 1..(i - 1) : keys[j] # keys[i]}

\* the elements of `keys` at the positions `at`, in order
RECURSIVE Pick(_, _, _)
Pick(keys, at, i) ==
    IF i > Len(keys) THEN <<>>
    ELSE (IF i \in at THEN <<keys[i]>> ELSE <<>>) \o Pick(keys, at, i + 1)

\* lst2 as the list the claim takes it for
AsList(lst2) ==
    CASE IsList(lst2) -> lst2.list
      [] lst2 = PyNone -> <<>>
      [] OTHER -> <<lst2>>

\* C13: merge_list(lst1, lst2) returns the elements of lst1 followed by
\* those of lst2 with duplicates removed, each element kept at the position
\* of its first occurrence; a single int or str given as lst2 is treated as
\* a one-element list and None as the empty list; lst1 itself is not
\* modified.  (The elements are ints and strs.)
C13_MergeList ==
    (call.op = "merge_list"
        /\ \A i \in 1..Len(AsList(call.args.lst2)) :
              ~IsList(AsList(call.args.lst2)[i])) =>
        LET both == call.args.lst1.list \o AsList(call.args.lst2)
        IN  /\ call.raised = None
            /\ call.ret = PyList(Pick(both, FirstOccurrences(both), 1))
            /\ call.after.lst1 = call.args.lst1

\* both lists hold an element twice or share one, and lst2 brings a new one
C13_Witness ==
    /\ call.op = "merge_list"
    /\ call.raised = None
    /\ IsList(call.args.lst2)
    /\ Len(call.ret.list) + 2
          <= Len(call.args.lst1.list) + Len(call.args.lst2.list)
    /\ Len(call.ret.list) > Len(call.args.lst1.list)
    /\ call.args.lst1.list # <<>>

\* C14: convert_list returns its argument unchanged when the argument is
\* not a string, and also when it is a string that cannot be parsed as a
\* list; it returns a list only when the string is the literal of a list,
\* so that the result of a string is the string itself or the list that a
\* bracketed text denotes.
C14_ConvertListOrUnchanged ==
    call.op = "convert_list" =>
        /\ call.raised = None
        /\ ~IsStr(call.args.val) => call.ret = call.args.val
        /\ IsStr(call.args.val) =>
            \/ call.ret = call.args.val
            \/ /\ IsList(call.ret)
               /\ call.args.val.str # <<>>
               /\ Head(call.args.val.str) = "["
               /\ call.args.val.str[Len(call.args.val.str)] = "]"

----------------------------------------------------------------------------
(* Utils.FileHelper.file_exists.  Paths are written character by character. *)

\* str.lstrip(".")
RECURSIVE LStripDot(_)
LStripDot(name) ==
    IF name # <<>> /\ Head(name) = "." THEN LStripDot(Tail(name)) ELSE name

\* "." + s for each s of name.split(".")[1:]
RECURSIVE DotSuffixes(_)
DotSuffixes(name) ==
    LET dots == {i \in 1..Len(name) : name[i] = "."} IN
    IF dots = {} THEN <<>>
    ELSE LET first == CHOOSE i \in dots : \A j \in dots : i <= j
             rest == SubSeq(name, first + 1, Len(name))
             later == {i \in 1..Len(rest) : rest[i] = "."}
             stop == IF later = {} THEN Len(rest)
                     ELSE (CHOOSE i \in later : \A j \in later : i <= j) - 1
         IN  <<<<".">> \o SubSeq(rest, 1, stop)>>
                \o DotSuffixes(SubSeq(rest, stop + 1, Len(rest)))

\* pathlib.PurePath.suffixes
suffixes(name) ==
    IF name # <<>> /\ name[Len(name)] = "." THEN <<>>
    ELSE DotSuffixes(LStripDot(name))

\* str.replace(old, ""), old not empty
RECURSIVE Remove(_, _)
Remove(text, old) ==
    IF Len(text) < Len(old) THEN text
    ELSE IF StartsWith(text, old)
    THEN Remove(SubSeq(text, Len(old) + 1, Len(text)), old)
    ELSE <<Head(text)>> \o Remove(Tail(text), old)

\* the loop `for suffix in p.suffixes: file_name = file_name.replace(suffix, "")`
RECURSIVE RemoveEach(_, _)
RemoveEach(file_name, all) ==
    IF all = <<>> THEN file_name
    ELSE RemoveEach(Remove(file_name, Head(all)), Tail(all))

\* str(p.parent) of a path without "." and ".." parts
parent(path) == IF dirname(path) = <<>> THEN <<".">> ELSE dirname(path)

split_filepath(fullfilepath) ==
    LET p_name == basename(fullfilepath)
        parent_path == parent(fullfilepath)
    IN  [file_path |-> parent_path \o <<"/">>,
         file_name |-> RemoveEach(p_name, suffixes(p_name)),
         file_extension |-> Flatten(suffixes(p_name))]

\* fnmatch of a name of a directory entry against a pattern with "*"
RECURSIVE fnmatch(_, _)
fnmatch(name, pattern) ==
    IF pattern = <<>> THEN name = <<>>
    ELSE IF Head(pattern) = "*"
    THEN \/ fnmatch(name, Tail(pattern))
         \/ name # <<>> /\ fnmatch(Tail(name), pattern)
    ELSE /\ name # <<>>
         /\ Head(name) = Head(pattern)
         /\ fnmatch(Tail(name), Tail(pattern))

\* a path as the file system resolves it: "./" in front means nothing
Resolved(path) ==
    IF StartsWith(path, <<".", "/">>) THEN SubSeq(path, 3, Len(path))
    ELSE path

\* os.listdir: the names of the files and directories right in `folder`
listdir(w, folder) ==
    {name \in {SubSeq(path, Len(Resolved(folder)) + 1, Len(path)) :
                 path \in {q \in DOMAIN w.files :
                             /\ StartsWith(q, Resolved(folder))
                             /\ Len(q) > Len(Resolved(folder))}} :
        \/ \A i \in 1..Len(name) : name[i] # "/"
        \/ /\ name[Len(name)] = "/"
           /\ \A i \in 1..(Len(name) - 1) : name[i] # "/"}

\* os.path.lexists
lexists(w, path) ==
    \/ Resolved(path) \in DOMAIN w.files
    \/ Resolved(path) \o <<"/">> \in DOMAIN w.files

\* glob.glob(folder + pattern) for a folder written without wildcards: a
\* pattern without "*" is looked up, one with "*" is matched against the
\* entries of the folder, hidden ones left out unless it starts with "."
glob_pattern(w, folder, pattern) ==
    IF \A i \in 1..Len(pattern) : pattern[i] # "*"
    THEN IF lexists(w, folder \o pattern) THEN {folder \o pattern} ELSE {}
    ELSE {folder \o RStripSlash(name) : name \in
            {n \in listdir(w, folder) :
                /\ fnmatch(RStripSlash(n), pattern)
                /\ Head(pattern) = "." \/ Head(n) # "."}}

\* `file_name + "-*" + file_extension`
DashedPattern(file_name, file_extension) ==
    file_name \o <<"-", "*">> \o file_extension

FileHelper_file_exists(w, fullfilepath) ==
    LET parts == split_filepath(fullfilepath)
        dashed == glob_pattern(w, parts.file_path,
                    DashedPattern(parts.file_name, parts.file_extension))
        plain == glob_pattern(w, parts.file_path,
                    parts.file_name \o parts.file_extension)
    IN  Return(w, PyBool(Cardinality(dashed) + Cardinality(plain) > 0))

\* the directory /d and what may be in it
Folder == <<"/", "d", "/">>
FileNames ==
    {<<"a", ".", "b">>, <<"a", "-", "c", ".", "b">>, <<"a", "-", ".", "b">>,
     <<"a", ".", "b", ".", "b", "c">>, <<"a", "c", ".", "b", ".", "b", "c">>,
     <<"a">>}
QueriedNames == FileNames \cup {<<"c">>, <<"a", "-", "*", ".", "b">>}
FolderStates ==
    {(Folder :> Directory)
        @@ [path \in {Folder \o n : n \in present} |-> [text |-> "old"]]
        @@ sub :
        present \in SUBSET FileNames,
        sub \in {EmptyMap, (Folder \o <<"c", "/">>) :> Directory,
                 <<"a", ".", "b">> :> [text |-> "new"]}}

FileHelperInit ==
    /\ ListIdleInit
    /\ call = NoCall
    /\ log = <<>>
    /\ created = EmptyMap
    /\ tables = {}
    /\ files \in FolderStates
    /\ buckets = [b \in BucketNames |-> EmptyMap]

FileExists ==
    /\ call = NoCall
    /\ \E fullfilepath \in {Folder \o n : n \in QueriedNames}
                             \cup {<<"a", ".", "b">>} :
           Commit(FileHelper_file_exists(World, fullfilepath),
                  "FileHelper.file_exists", [fullfilepath |-> fullfilepath])

FileHelperNext ==
    \/ FileExists
    \/ TakeResult

SpecFileHelper == FileHelperInit /\ [][FileHelperNext]_vars

\* C15: file_exists(path) returns True if a file exists on disk at the given
\* path and False if no file exists at that path, for every state of the
\* directory (a path without wildcards; a directory at the path counts as
\* existing).
C15_FileExistsAtPath ==
    (call.op = "FileHelper.file_exists"
        /\ \A i \in 1..Len(call.args.fullfilepath) :
              call.args.fullfilepath[i] # "*") =>
        (call.ret = PyTrue <=>
            \/ call.args.fullfilepath \in DOMAIN files
            \/ call.args.fullfilepath \o <<"/">> \in DOMAIN files)

----------------------------------------------------------------------------
(* BigQuery.__init__ and BigQuery.execute_stored_procedure *)

SCOPES == <<"https://www.googleapis.com/auth/cloud-platform">>

\* service_account.Credentials.from_service_account_file(filename, scopes):
\* the credentials of the key file, which carry its project id
from_service_account_file(w, filename, scopes) ==
    LET asked == Logged(w, [api |-> "from_service_account_file",
                            filename |-> filename, scopes |-> scopes])
    IN  IF filename \notin DOMAIN w.files
        THEN Raise(asked, "FileNotFoundError")
        ELSE Return(asked, [service_account |-> filename, scopes |-> scopes,
                            project_id |-> w.files[filename].json.project_id])

\* Oauth.ServiceAccount.from_service_account_file(credentials)
ServiceAccount_from_service_account_file(w, environ, credentials) ==
    from_service_account_file(
        w,
        IF credentials = NonePath
        THEN environ.GOOGLE_APPLICATION_CREDENTIALS ELSE credentials,
        SCOPES)

\* google.auth.default(scopes): the application default credentials and
\* their project, or DefaultCredentialsError when there are none
auth_default(w, adc, scopes) ==
    LET asked == Logged(w, [api |-> "auth.default", scopes |-> scopes])
    IN  IF adc = None THEN Raise(asked, "DefaultCredentialsError")
        ELSE Return(asked, [creds |-> [default |-> adc, scopes |-> scopes],
                            project_id |-> adc])

\* which branch of __init__ obtains the credentials
CredentialSourceEnvironFirst(credentials, environ) ==
    IF environ.GOOGLE_APPLICATION_CREDENTIALS # NonePath THEN "environ"
    ELSE IF credentials # NonePath THEN "argument"
    ELSE "default"
CredentialSource(credentials, environ) ==
    IF credentials # NonePath THEN "argument"
    ELSE IF environ.GOOGLE_APPLICATION_CREDENTIALS # NonePath THEN "environ"
    ELSE "default"

\* bigquery.Client(credentials=creds, project=project_id)
bigquery_Client(w, creds, project) ==
    Logged(w, [api |-> "bigquery.Client", credentials |-> creds,
               project |-> project])

\* the project_id argument is overwritten on every branch
BigQuery_init(w, environ, adc, credentials, project_id) ==
    LET source == CredentialSource(credentials, environ)
        found == CASE source = "argument" ->
                        ServiceAccount_from_service_account_file(
                            w, environ, credentials)
                   [] source = "environ" ->
                        ServiceAccount_from_service_account_file(
                            w, environ, NonePath)
                   [] OTHER -> auth_default(w, adc, SCOPES)
    IN  IF found.raised # None THEN found
        ELSE IF source = "default"
        THEN Return(bigquery_Client(found, found.ret.creds,
                                    found.ret.project_id), None)
        ELSE Return(bigquery_Client(found, found.ret, found.ret.project_id),
                    None)

MaxParams == 2

\* the backquote character of a query text, as a token
Backquote == "backquote"

\* "@" + ",@".join(names)
RECURSIVE JoinNames(_)
JoinNames(names) ==
    IF names = <<>> THEN <<>>
    ELSE IF Len(names) = 1 THEN <<Head(names)>>
    ELSE <<Head(names), ",", "@">> \o JoinNames(Tail(names))

InstructionParamsPerName(names) ==
    Flatten([k \in 1..Len(names) |->
                (IF k = 1 THEN <<>> ELSE <<",">>) \o <<"@", names[k]>>])
InstructionParams(names) == <<"@">> \o JoinNames(names)

\* ScalarQueryParameter(sp_param.name, sp_param.type, sp_param.value)
ScalarQueryParameter(name, type, value) ==
    [name |-> name, type_ |-> type, value |-> value]

\* dict(**result) of a result row
RowDict(row) ==
    [k \in {row.keys[i] : i \in 1..Len(row.keys)} |->
        row.values[CHOOSE i \in 1..Len(row.keys) : row.keys[i] = k]]

\* execute_query with a job_config: client.query(...).result() as a list;
\* `answer` is what the service answers, rows or an error
execute_query(w, query, job_config, answer) ==
    LET asked == Logged(w, [api |-> "client.query", query |-> query,
                            job_config |-> job_config])
    IN  IF "error" \in DOMAIN answer THEN Raise(asked, answer.error)
        ELSE Return(asked, answer.rows)

execute_stored_procedure(w, sp_name, sp_params, answer) ==
    LET names == [k \in 1..Len(sp_params) |-> sp_params[k].name]
        query == <<"CALL ", Backquote, sp_name, Backquote, "(">>
                    \o InstructionParams(names) \o <<")">>
        query_parameters ==
            [k \in 1..Len(sp_params) |->
                ScalarQueryParameter(sp_params[k].name, sp_params[k].type,
                                     sp_params[k].value)]
        query_results ==
            execute_query(w, query, [query_parameters |-> query_parameters],
                          answer)
    IN  IF query_results.raised # None THEN query_results
        ELSE Return(query_results,
                    [frame |-> [k \in 1..Len(query_results.ret) |->
                                   RowDict(query_results.ret[k])]])

KeyFiles == {<<"k1.json">>, <<"k2.json">>}
KeyFile(project_id) == [json |-> [project_id |-> project_id], layout |-> "written"]

\* the key files on disk; k1.json is of project p1, k2.json of project p2
KeyFolders ==
    {Entry(<<"k1.json">>, k1) @@ Entry(<<"k2.json">>, k2) :
        k1 \in {Absent, KeyFile("p1")}, k2 \in {Absent, KeyFile("p2")}}

ClientInit ==
    /\ ListIdleInit
    /\ call = NoCall
    /\ log = <<>>
    /\ created = EmptyMap
    /\ tables = {}
    /\ files \in KeyFolders
    /\ buckets = [b \in BucketNames |-> EmptyMap]

NewBigQuery ==
    /\ call = NoCall
    /\ \E credentials \in KeyFiles \cup {NonePath},
          project_id \in {None, "p1", "p3"},
          environ \in {[GOOGLE_APPLICATION_CREDENTIALS |-> k] :
                          k \in KeyFiles \cup {NonePath}},
          adc \in {None, "p3"} :
           Commit(BigQuery_init(World, environ, adc, credentials, project_id),
                  "BigQuery.__init__",
                  [credentials |-> credentials, project_id |-> project_id,
                   environ |-> environ, adc |-> adc])

StoredProcedureParameters ==
    {[name |-> "p1", value |-> PyString(<<"v">>), type |-> "STRING"],
     [name |-> "p2", value |-> PyInt(1), type |-> "INT64"]}

Rows ==
    {[keys |-> <<"a", "b">>, values |-> <<1, 2>>],
     [keys |-> <<"a", "b">>, values |-> <<3, 4>>]}

Answers ==
    {[rows |-> r] : r \in SeqUpTo(Rows, 2)}
        \cup {[error |-> "GoogleCloudError"]}

ExecuteStoredProcedure ==
    /\ call = NoCall
    /\ \E sp_name \in {"sp", "ds.sp"},
          sp_params \in SeqUpTo(StoredProcedureParameters, MaxParams),
          answer \in Answers :
           Commit(execute_stored_procedure(World, sp_name, sp_params, answer),
                  "execute_stored_procedure",
                  [sp_name |-> sp_name, sp_params |-> sp_params,
                   answer |-> answer])

ClientNext ==
    \/ NewBigQuery
    \/ ExecuteStoredProcedure
    \/ TakeResult

SpecClient == ClientInit /\ [][ClientNext]_vars

\* the key file the claim expects to be used, NonePath for none
ExpectedKeyFile(a) ==
    IF a.credentials # NonePath THEN a.credentials
    ELSE a.environ.GOOGLE_APPLICATION_CREDENTIALS

\* the credentials the claim expects, and their project: [creds, project]
ExpectedCredentials(a, disk) ==
    LET key == ExpectedKeyFile(a)
    IN  IF key # NonePath
        THEN [creds |-> [service_account |-> key, scopes |-> SCOPES,
                         project_id |-> disk[key].json.project_id],
              project |-> disk[key].json.project_id]
        ELSE [creds |-> [default |-> a.adc, scopes |-> SCOPES],
              project |-> a.adc]

Placeholders(query) == Cardinality({i \in 1..Len(query) : query[i] = "@"})

\* C17: for every list of n >= 0 stored-procedure parameters p1..pn,
\* execute_stored_procedure issues exactly one query whose text is
\* CALL <backquote><sp_name><backquote>(@p1,...,@pn) with exactly n placeholders, passes one
\* scalar query parameter per element in the same order, and returns one
\* row per result row.
C17_StoredProcedureCall ==
    call.op = "execute_stored_procedure" =>
        LET a == call.args
            n == Len(a.sp_params)
            queries == At(log, "client.query")
        IN  /\ Cardinality(queries) = 1
            /\ \A i \in queries :
                  /\ log[i].query =
                        <<"CALL ", Backquote, a.sp_name, Backquote, "(">>
                          \o InstructionParamsPerName(
                                [k \in 1..n |-> a.sp_params[k].name])
                          \o <<")">>
                  /\ Placeholders(log[i].query) = n
                  /\ Len(log[i].job_config.query_parameters) = n
                  /\ \A k \in 1..n :
                        LET p == log[i].job_config.query_parameters[k] IN
                        /\ p.name = a.sp_params[k].name
                        /\ p.type_ = a.sp_params[k].type
                        /\ p.value = a.sp_params[k].value
            /\ call.raised = None =>
                  Len(call.ret.frame) = Len(a.answer.rows)

----------------------------------------------------------------------------
(* AdManager: AudienceService.update and ForecastService.  The service is   *)
(* the environment: `store` is what it holds when the call is made.         *)

\* `d[key] = value` on a dict
SetItem(d, key, value) ==
    [k \in DOMAIN d \cup {key} |-> IF k = key THEN value ELSE d[k]]

\* StatementBuilder().Where("Type = :type AND Id = :audience_segment_id")
\*   .WithBindVariable(...).WithBindVariable(...).Limit(1)
UpdateStatement(audience_segment_id) ==
    [where |-> "Type = :type AND Id = :audience_segment_id",
     values |-> [audience_segment_id |-> audience_segment_id,
                 type |-> "FIRST_PARTY"],
     offset |-> 0, limit |-> 1]

\* getAudienceSegmentsByStatement for that statement: the segments of the
\* store of that type and id, in id order, at most `limit` of them; a
\* response without a match comes in the form `empty`
getAudienceSegmentsByStatement(store, filter_statement, empty) ==
    LET matching == {id \in DOMAIN store :
                        /\ store[id].type = filter_statement.values.type
                        /\ id = filter_statement.values.audience_segment_id}
        count == IF Cardinality(matching) < filter_statement.limit
                 THEN Cardinality(matching) ELSE filter_statement.limit
        page == [k \in 1..count |->
                    store[CHOOSE id \in matching :
                            Cardinality({j \in matching : j < id}) = k - 1]]
    IN  IF page = <<>> THEN empty
        ELSE [hasKey |-> TRUE, results |-> page]

\* `if "results" in response and len(response["results"]):`
SegmentFoundAlways(response) == TRUE
SegmentFound(response) == response.hasKey /\ Len(response.results) # 0

\* the loop body: the three assignments to the segment
UpdatedSegment(audience_segment, name, description, membershipexpirationdays) ==
    SetItem(SetItem(SetItem(audience_segment, "name", name),
                    "description", description),
            "membershipExpirationDays", membershipexpirationdays)

AudienceService_update(w, store, empty, audience_segment_id, name, description, custom_targeting_key_id, custom_targeting_value_id, pageviews, recencydays, membershipexpirationdays) ==
    LET filter_statement == UpdateStatement(audience_segment_id)
        response == getAudienceSegmentsByStatement(store, filter_statement,
                                                   empty)
        asked == Logged(w, [api |-> "getAudienceSegmentsByStatement",
                            statement |-> filter_statement])
    IN  IF SegmentFound(response)
        THEN Return(Logged(asked,
                [api |-> "updateAudienceSegments",
                 segments |-> [k \in 1..Len(response.results) |->
                                 UpdatedSegment(response.results[k], name,
                                                description,
                                                membershipexpirationdays)]]),
                None)
        ELSE Return(asked, None)

SegmentIds == {1, 2}
Segment(id, type) ==
    [id |-> id, name |-> "old name", description |-> "old description",
     type |-> type, pageViews |-> 1, recencyDays |-> 1,
     membershipExpirationDays |-> 90]

\* what the service holds: for each id nothing, a first-party segment or a
\* third-party one
Stores ==
    UNION {[ids -> {"FIRST_PARTY", "THIRD_PARTY"}] : ids \in SUBSET SegmentIds}
SegmentStore(types) == [id \in DOMAIN types |-> Segment(id, types[id])]

\* a response without a match: no 'results' key, or an empty list
EmptyResponses == {NoResultsKey, [hasKey |-> TRUE, results |-> <<>>]}

Update ==
    /\ call = NoCall
    /\ \E types \in Stores, empty \in EmptyResponses,
          audience_segment_id \in SegmentIds, name \in {"new name"},
          description \in {"new description", "old description"},
          pageviews \in {1, 5}, recencydays \in {1, 7},
          membershipexpirationdays \in {90, 30} :
           Commit(AudienceService_update(World, SegmentStore(types), empty,
                                         audience_segment_id, name, description,
                                         1, 1, pageviews, recencydays,
                                         membershipexpirationdays),
                  "AudienceService.update",
                  [store |-> SegmentStore(types), empty |-> empty,
                   audience_segment_id |-> audience_segment_id, name |-> name,
                   description |-> description, pageviews |-> pageviews,
                   recencydays |-> recencydays,
                   membershipexpirationdays |-> membershipexpirationdays])

MaxBreakdowns == 2
MaxEntries == 2
MaxDays == 2

\* dict.get(key)
Get(d, key) == IF key \in DOMAIN d THEN d[key] ELSE None

\* report_date + timedelta(days=d), dates counted in days
\* `[report_date + datetime.timedelta(days=d) for d in range(days)]`
TimeWindows(report_date, days) ==
    [k \in 1..(IF days < 0 THEN 0 ELSE days) |-> report_date + (k - 1)]

_gen_line_item(targetedAdUnits, creativePlaceholders, report_date, days) ==
    [lineItem |->
        [targeting |->
            [inventoryTargeting |-> [targetedAdUnits |-> targetedAdUnits]],
         creativePlaceholders |-> creativePlaceholders,
         lineItemType |-> "STANDARD",
         startDateTimeType |-> "IMMEDIATELY",
         endDateTime |-> report_date + days,
         costType |-> "CPM",
         costPerUnit |-> [currencyCode |-> "USD", microAmount |-> "2000000"],
         primaryGoal |-> [units |-> "50", unitType |-> "IMPRESSIONS",
                          goalType |-> "LIFETIME"],
         creativeRotationType |-> "EVEN",
         discountType |-> "PERCENTAGE"],
     advertiserId |-> None]

_gen_forecast_options(targets_list, report_date, days) ==
    [includeContendingLineItems |-> TRUE,
     breakdown |->
        [timeWindows |-> TimeWindows(report_date, days),
         targets |->
            [k \in 1..Len(targets_list) |->
                [name |-> Get(targets_list[k], "name"),
                 targeting |->
                    [customTargeting |->
                        [xsi_type |-> "CustomCriteriaSet",
                         logicalOperator |-> "OR",
                         children |->
                            [xsi_type |-> "CustomCriteria",
                             keyId |-> Get(targets_list[k], "keyId"),
                             valueIds |-> <<Get(targets_list[k], "valueIds")>>,
                             operator |-> "IS"]]]]]]]

_gen_forecast_options_by_targeting_presets(targeting_presets, report_date, days) ==
    [includeContendingLineItems |-> TRUE,
     breakdown |->
        [timeWindows |-> TimeWindows(report_date, days),
         targets |->
            [k \in 1..Len(targeting_presets) |->
                [name |-> targeting_presets[k].name,
                 targeting |->
                    [customTargeting |->
                        targeting_presets[k].targeting.customTargeting]]]]]

\* `"breakdowns" in forecast and len(forecast["breakdowns"])`
HasBreakdowns(forecast) ==
    "breakdowns" \in DOMAIN forecast /\ Len(forecast.breakdowns) # 0

\* datetime.date(value_date["year"], value_date["month"], value_date["day"])
DateOf(value_date) ==
    [year |-> value_date.year, month |-> value_date.month,
     day |-> value_date.day]

\* the item of one entry in get_forecast
ForecastItem(breakdown, breakdown_entry) ==
    [date |-> DateOf(breakdown.startTime.date),
     matched |-> breakdown_entry.forecast.matched,
     available |-> breakdown_entry.forecast.available,
     possible |-> IF "possible" \in DOMAIN breakdown_entry.forecast
                  THEN breakdown_entry.forecast.possible ELSE 0,
     name |-> IF "name" \in DOMAIN breakdown_entry
              THEN breakdown_entry.name ELSE ""]

\* the inner loop of get_forecast over breakdown["breakdownEntries"]
RECURSIVE ForecastEntries(_, _, _)
ForecastEntries(forecast_list, breakdown, entries) ==
    IF entries = <<>> THEN forecast_list
    ELSE ForecastEntries(Append(forecast_list,
                                ForecastItem(breakdown, Head(entries))),
                         breakdown, Tail(entries))

\* the outer loop of get_forecast over forecast["breakdowns"]
RECURSIVE ForecastBreakdowns(_, _)
ForecastBreakdowns(forecast_list, breakdowns) ==
    IF breakdowns = <<>> THEN forecast_list
    ELSE ForecastBreakdowns(
            ForecastEntries(forecast_list, Head(breakdowns),
                            Head(breakdowns).breakdownEntries),
            Tail(breakdowns))

\* `forecast` is what getAvailabilityForecast answers
get_forecast(w, targetedAdUnits, creativePlaceholders, targets_list, report_date, days, forecast) ==
    LET asked == Logged(w, [api |-> "getAvailabilityForecast",
                line_item |-> _gen_line_item(targetedAdUnits,
                                creativePlaceholders, report_date, days),
                options |-> _gen_forecast_options(targets_list, report_date,
                                                  days)])
    IN  Return(asked, IF HasBreakdowns(forecast)
                      THEN ForecastBreakdowns(<<>>, forecast.breakdowns)
                      ELSE <<>>)

\* the item of one entry in get_forecast_by_targeting_preset
PresetForecastItemPossible(breakdown, breakdown_entry) ==
    [date |-> DateOf(breakdown.startTime.date),
     matched |-> breakdown_entry.forecast.matched,
     available |-> breakdown_entry.forecast.available,
     possible |-> IF "possible" \in DOMAIN breakdown_entry.forecast
                  THEN breakdown_entry.forecast.possible
                  ELSE breakdown_entry.forecast.available,
     name |-> IF "name" \in DOMAIN breakdown_entry
              THEN breakdown_entry.name ELSE ""]
PresetForecastItem(breakdown, breakdown_entry) ==
    [date |-> DateOf(breakdown.startTime.date),
     matched |-> breakdown_entry.forecast.matched,
     available |-> breakdown_entry.forecast.available,
     possible |-> IF "possible" \in DOMAIN breakdown_entry.forecast
                  THEN breakdown_entry.forecast.possible ELSE 0,
     name |-> IF "name" \in DOMAIN breakdown_entry
              THEN breakdown_entry.name ELSE ""]

\* the inner loop of get_forecast_by_targeting_preset
RECURSIVE PresetForecastEntries(_, _, _)
PresetForecastEntries(forecast_list, breakdown, entries) ==
    IF entries = <<>> THEN forecast_list
    ELSE PresetForecastEntries(
            Append(forecast_list,
                   PresetForecastItem(breakdown, Head(entries))),
            breakdown, Tail(entries))

\* the outer loop of get_forecast_by_targeting_preset
RECURSIVE PresetForecastBreakdowns(_, _)
PresetForecastBreakdowns(forecast_list, breakdowns) ==
    IF breakdowns = <<>> THEN forecast_list
    ELSE PresetForecastBreakdowns(
            PresetForecastEntries(forecast_list, Head(breakdowns),
                                  Head(breakdowns).breakdownEntries),
            Tail(breakdowns))

get_forecast_by_targeting_preset(w, targetedAdUnits, creativePlaceholders, targeting_presets, report_date, days, forecast) ==
    LET asked == Logged(w, [api |-> "getAvailabilityForecast",
                line_item |-> _gen_line_item(targetedAdUnits,
                                creativePlaceholders, report_date, days),
                options |-> _gen_forecast_options_by_targeting_presets(
                                targeting_presets, report_date, days)])
    IN  Return(asked, IF HasBreakdowns(forecast)
                      THEN PresetForecastBreakdowns(<<>>, forecast.breakdowns)
                      ELSE <<>>)

\* the answers of getAvailabilityForecast
BreakdownEntries ==
    {[forecast |-> [matched |-> 100, available |-> 200], name |-> "target1"],
     [forecast |-> [matched |-> 1, available |-> 2, possible |-> 3]]}
\* one breakdown per time window, the k-th starting on the k-th day
Breakdown(k, entries) ==
    [startTime |-> [date |-> [year |-> 2024, month |-> 1, day |-> k]],
     breakdownEntries |-> entries]
Forecasts ==
    {[breakdowns |-> [k \in 1..Len(e) |-> Breakdown(k, e[k])]] :
        e \in SeqUpTo(SeqUpTo(BreakdownEntries, MaxEntries), MaxBreakdowns)}
        \cup {[id |-> 1]}

TargetsLists ==
    {<<>>, <<[name |-> "target1", keyId |-> 1, valueIds |-> 10],
             [name |-> "target2", keyId |-> 1, valueIds |-> 11]>>}
TargetingPresets ==
    {<<>>, <<[id |-> 1, name |-> "target1",
              targeting |-> [customTargeting |->
                                [xsi_type |-> "CustomCriteriaSet"]]]>>}

GetForecast ==
    /\ call = NoCall
    /\ \E targets_list \in TargetsLists, days \in {0, MaxDays},
          forecast \in Forecasts :
           Commit(get_forecast(World, <<>>, <<>>, targets_list, 0, days,
                               forecast),
                  "get_forecast",
                  [targets |-> targets_list, days |-> days,
                   forecast |-> forecast])

GetForecastByTargetingPreset ==
    /\ call = NoCall
    /\ \E targeting_presets \in TargetingPresets, days \in {0, MaxDays},
          forecast \in Forecasts :
           Commit(get_forecast_by_targeting_preset(World, <<>>, <<>>,
                                                   targeting_presets, 0, days,
                                                   forecast),
                  "get_forecast_by_targeting_preset",
                  [targets |-> targeting_presets, days |-> days,
                   forecast |-> forecast])

AdManagerInit ==
    /\ ListIdleInit
    /\ call = NoCall
    /\ log = <<>>
    /\ created = EmptyMap
    /\ tables = {}
    /\ files = EmptyMap
    /\ buckets = [b \in BucketNames |-> EmptyMap]

AdManagerNext ==
    \/ Update
    \/ GetForecast
    \/ GetForecastByTargetingPreset
    \/ TakeResult

SpecAdManager == AdManagerInit /\ [][AdManagerNext]_vars

\* the breakdowns of an answer, none when the key is missing
BreakdownsOf(forecast) ==
    IF "breakdowns" \in DOMAIN forecast THEN forecast.breakdowns ELSE <<>>

\* the number of entries of the breakdowns before the b-th
RECURSIVE EntriesBefore(_, _)
EntriesBefore(breakdowns, b) ==
    IF b <= 1 THEN 0
    ELSE EntriesBefore(breakdowns, b - 1)
            + Len(breakdowns[b - 1].breakdownEntries)

\* C18: get_forecast and get_forecast_by_targeting_preset return one item
\* per breakdown entry of the response, in breakdown order then entry order,
\* each with the start date of its breakdown, 'possible' set to 0 when the
\* entry has none and 'name' set to '' when the entry has none; they return
\* the empty list when the response has no breakdowns, and given the same
\* response both methods return the same list.
C18_ForecastItems ==
    call.op \in {"get_forecast", "get_forecast_by_targeting_preset"} =>
        LET breakdowns == BreakdownsOf(call.args.forecast)
            n == Len(breakdowns)
        IN  /\ call.raised = None
            /\ Len(call.ret) = EntriesBefore(breakdowns, n + 1)
            /\ \A b \in 1..n :
                \A e \in 1..Len(breakdowns[b].breakdownEntries) :
                    LET entry == breakdowns[b].breakdownEntries[e]
                        item == call.ret[EntriesBefore(breakdowns, b) + e]
                    IN  /\ item.date.year = breakdowns[b].startTime.date.year
                        /\ item.date.month = breakdowns[b].startTime.date.month
                        /\ item.date.day = breakdowns[b].startTime.date.day
                        /\ item.matched = entry.forecast.matched
                        /\ item.available = entry.forecast.available
                        /\ item.possible =
                              IF "possible" \in DOMAIN entry.forecast
                              THEN entry.forecast.possible ELSE 0
                        /\ item.name = IF "name" \in DOMAIN entry
                                       THEN entry.name ELSE ""
            /\ breakdowns = <<>> => call.ret = <<>>
            /\ call.ret = get_forecast(World, <<>>, <<>>, <<>>, 0, 0,
                                       call.args.forecast).ret
            /\ call.ret = get_forecast_by_targeting_preset(
                              World, <<>>, <<>>, <<>>, 0, 0,
                              call.args.forecast).ret

\* two breakdowns of different dates: an entry without name, then entries
\* the first of which has no possible
C18_Witness ==
    /\ call.op = "get_forecast_by_targeting_preset"
    /\ Len(BreakdownsOf(call.args.forecast)) = 2
    /\ Len(call.ret) = 3
    /\ call.ret[1].name = ""
    /\ call.ret[2].possible = 0
    /\ call.ret[2].date # call.ret[1].date

\* a first-party segment with the given id is in the store
FirstPartySegmentHeld(a) ==
    /\ a.audience_segment_id \in DOMAIN a.store
    /\ a.store[a.audience_segment_id].type = "FIRST_PARTY"

\* C19: AudienceService.update calls updateAudienceSegments exactly once
\* when a first-party segment with the given id is found, and never calls
\* it (changing nothing) when no segment matches.
C19_UpdateOnlyWhenFound ==
    call.op = "AudienceService.update" =>
        LET updates == At(log, "updateAudienceSegments") IN
        /\ call.raised = None
        /\ Cardinality(At(log, "getAudienceSegmentsByStatement")) = 1
        /\ FirstPartySegmentHeld(call.args) =>
              /\ Cardinality(updates) = 1
              /\ \A i \in updates :
                    /\ Len(log[i].segments) = 1
                    /\ log[i].segments[1].id = call.args.audience_segment_id
        /\ ~FirstPartySegmentHeld(call.args) => updates = {}

\* the one update of a segment that is held
C19_Witness ==
    /\ call.op = "AudienceService.update"
    /\ FirstPartySegmentHeld(call.args)
    /\ Cardinality(DOMAIN call.args.store) = 2
    /\ Cardinality(At(log, "updateAudienceSegments")) = 1

\* C20: the segment that AudienceService.update sends to
\* updateAudienceSegments carries every value given to update: the new
\* name, the new description, the pageviews, the recencydays and the
\* membershipexpirationdays.
C20_UpdateCarriesEveryValue ==
    call.op = "AudienceService.update" =>
        \A i \in At(log, "updateAudienceSegments") :
            \A k \in 1..Len(log[i].segments) :
                LET sent == log[i].segments[k] IN
                /\ sent.name = call.args.name
                /\ sent.description = call.args.description
                /\ sent.membershipExpirationDays
                      = call.args.membershipexpirationdays
                /\ sent.pageViews = call.args.pageviews
                /\ sent.recencyDays = call.args.recencydays

\* ---------------------------------------------------------------------------
\* The four paginated loops: the three list methods above and
\* TargetingPresetService.list_by_prefix, which collects a dict keyed by name
\* ---------------------------------------------------------------------------

\* `targeting_presets[targeting_preset["name"]] = targeting_preset`: a new
\* name is added at the end, a name already held keeps its place.  A preset
\* is identified by its name.
DictSetItem(acc, preset) ==
    IF \E i \in 1..Len(acc) : acc[i] = preset THEN acc ELSE Append(acc, preset)

\* `for targeting_preset in response["results"]: targeting_presets[...] = ...`
RECURSIVE DictSetEach(_, _)
DictSetEach(acc, page) ==
    IF page = <<>> THEN acc
    ELSE DictSetEach(DictSetItem(acc, Head(page)), Tail(page))

TargetingPresetListByPrefix ==
    \E response \in Responses :
        ListIteration("TargetingPresetService.list_by_prefix", response,
                      DictSetEach(results, response.results))

PaginatedMethods == ListMethods \cup {"TargetingPresetService.list_by_prefix"}

PaginatedNext ==
    \/ \E m \in PaginatedMethods : ListStart(m)
    \/ AudienceList
    \/ AudienceListAll
    \/ CustomTargetingList
    \/ TargetingPresetListByPrefix

SpecPaginated == ListInit /\ [][PaginatedNext]_vars

\* C21: in every paginated loop the i-th request of one call (i = 0, 1, ...)
\* carries offset i * limit with the limit of the statement builder, so the
\* offsets strictly increase and none is used twice; every response before
\* the last had results, and the call is over exactly when the last response
\* is empty or lacks 'results'.
C21_OffsetsAdvanceByLimit ==
    pc \in {"loop", "done"} =>
        /\ call.op \in PaginatedMethods
        /\ Len(responses) = Len(log)
        /\ \A i \in 1..Len(log) :
              /\ log[i].limit = StatementBuilder.limit
              /\ log[i].offset = (i - 1) * StatementBuilder.limit
        /\ \A i, j \in 1..Len(log) :
              /\ i < j => log[i].offset < log[j].offset
              /\ log[i].offset = log[j].offset => i = j
        /\ \A i \in 1..Len(responses) :
              HasResults(responses[i]) <=> (i < Len(responses) \/ pc = "loop")
        /\ statement.offset
              = Len(SelectSeq(responses, HasResults)) * StatementBuilder.limit

\* a call that made three requests and ended on the empty third page
C21_Witness ==
    /\ pc = "done"
    /\ call.op = "TargetingPresetService.list_by_prefix"
    /\ Len(log) = 3
    /\ log[3].offset = 2 * PageLimit
    /\ call.ret # <<>>

\* ---------------------------------------------------------------------------
\* CustomTargetingService.delete
\* ---------------------------------------------------------------------------

\* the slice size given to ListHelper.chunk_list
SliceSize == 100
\* longest list of key-value pairs given to delete
MaxPairs == 201

\* str(key_value_pair["id"]): the decimal text of the id
StrOfId(key_value_pair) == [digits |-> key_value_pair.id]

CommaSpace == [sep |-> ", "]

\* ", ".join(texts)
JoinCommaSpace(texts) ==
    [k \in 1..(2 * Len(texts) - 1) |->
        IF k % 2 = 1 THEN texts[(k + 1) \div 2] ELSE CommaSpace]

\* StatementBuilder().Where("customTargetingKeyId = :keyId AND id IN (%s)"
\*     % ", ".join([str(p["id"]) for p in key_value_pairs_slice]))
\*     .WithBindVariable("keyId", targeting_key_id)
ValueStatement(targeting_key_id, key_value_pairs_slice) ==
    [keyId |-> targeting_key_id,
     idIn |-> JoinCommaSpace([k \in 1..Len(key_value_pairs_slice) |->
                                StrOfId(key_value_pairs_slice[k])])]

\* `key_value_pairs_slices = ListHelper.chunk_list(key_value_pairs, 100)`
KeyValuePairsOneSlice(key_value_pairs) == <<PyList(key_value_pairs)>>
KeyValuePairsSlices(key_value_pairs) ==
    chunk_list(key_value_pairs, SliceSize).ret.list

\* `for key_value_pairs_slice in key_value_pairs_slices:` from slice k on;
\* answers[k] is what the service does with the k-th action: it returns
\* None or an UpdateResult, or raises.
RECURSIVE DeleteSlices(_, _, _, _, _)
DeleteSlices(w, answers, targeting_key_id, slices, k) ==
    IF k > Len(slices) \/ w.raised # None THEN w
    ELSE LET asked == Logged(w,
                 [api |-> "performCustomTargetingValueAction",
                  action |-> [xsi_type |-> "DeleteCustomTargetingValues"],
                  filter_statement |->
                      ValueStatement(targeting_key_id, slices[k].list)])
         IN  DeleteSlices(IF answers[k] = "GoogleAdsError"
                          THEN Raise(asked, "GoogleAdsError") ELSE asked,
                          answers, targeting_key_id, slices, k + 1)

CustomTargetingService_delete(w, answers, targeting_key_id, key_value_pairs) ==
    DeleteSlices(w, answers, targeting_key_id,
                 KeyValuePairsSlices(key_value_pairs), 1)

KeyValuePair(id) == [id |-> id, name |-> <<"value", id>>]

\* lengths at and next to the multiples of the slice size
PairCounts == {n \in 0..MaxPairs : n % SliceSize \in {0, 1, SliceSize - 1}}

\* lists of pairs with distinct ids, in ascending or descending id order
KeyValuePairLists ==
    UNION {{[k \in 1..n |-> KeyValuePair(k)],
            [k \in 1..n |-> KeyValuePair(n + 1 - k)]} : n \in PairCounts}

ActionResults == {"None", "UpdateResult", "GoogleAdsError"}
MostSlices == (MaxPairs + SliceSize - 1) \div SliceSize

Delete ==
    /\ call = NoCall
    /\ \E targeting_key_id \in {7, 8}, key_value_pairs \in KeyValuePairLists,
          answers \in [1..MostSlices -> ActionResults] :
           Commit(CustomTargetingService_delete(World, answers, targeting_key_id,
                                                key_value_pairs),
                  "CustomTargetingService.delete",
                  [targeting_key_id |-> targeting_key_id,
                   key_value_pairs |-> key_value_pairs, answers |-> answers])

DeleteInit ==
    /\ ListIdleInit
    /\ call = NoCall
    /\ log = <<>>
    /\ created = EmptyMap
    /\ tables = {}
    /\ files = EmptyMap
    /\ buckets = [b \in BucketNames |-> EmptyMap]

DeleteNext ==
    \/ Delete
    \/ TakeResult

SpecDelete == DeleteInit /\ [][DeleteNext]_vars

\* the ids named by the statement of one action: the texts between the
\* separators
IdsIn(entry) ==
    LET joined == entry.filter_statement.idIn
    IN  [k \in 1..((Len(joined) + 1) \div 2) |-> joined[2 * k - 1].digits]

\* C22: a delete that the service lets run to its end issues ceil(n/100)
\* performCustomTargetingValueAction calls for n pairs (none for the empty
\* list), each naming between 1 and 100 ids; the ids of the calls, taken in
\* call order, are the ids of the given pairs in input order, so every given
\* id is named by exactly one call.  A delete ended by an error of the
\* service has made the calls of the slices up to the failing one.
C22_DeleteOneCallPerSlice ==
    call.op = "CustomTargetingService.delete" =>
        LET pairs == call.args.key_value_pairs
            n == Len(pairs)
            actions == Calls(log, "performCustomTargetingValueAction")
            named == Flatten([c \in 1..Len(actions) |-> IdsIn(actions[c])])
        IN  /\ actions = log
            /\ \A c \in 1..Len(actions) :
                  /\ Len(IdsIn(actions[c])) \in 1..SliceSize
                  /\ actions[c].filter_statement.keyId
                        = call.args.targeting_key_id
                  /\ c < Len(actions) => Len(IdsIn(actions[c])) = SliceSize
            /\ named = [k \in 1..Len(named) |-> pairs[k].id]
            /\ call.raised = None =>
                  /\ Len(actions) = (n + SliceSize - 1) \div SliceSize
                  /\ Len(named) = n
                  /\ \A p \in 1..n :
                        Cardinality({c \in 1..Len(actions) :
                            \E k \in 1..Len(IdsIn(actions[c])) :
                                IdsIn(actions[c])[k] = pairs[p].id}) = 1
            /\ call.raised # None =>
                  /\ Len(actions) >= 1
                  /\ call.args.answers[Len(actions)] = "GoogleAdsError"

\* 201 pairs deleted in three calls, the last naming the one pair left over
C22_Witness ==
    /\ call.op = "CustomTargetingService.delete"
    /\ call.raised = None
    /\ Len(call.args.key_value_pairs) = 2 * SliceSize + 1
    /\ Len(log) = 3
    /\ IdsIn(log[3]) = <<call.args.key_value_pairs[2 * SliceSize + 1].id>>

\* ---------------------------------------------------------------------------
\* CloudStorage.copy_files
\* ---------------------------------------------------------------------------

\* `for file in files: self.copy_file(...)`
RECURSIVE CopyEach(_, _, _, _, _)
CopyEach(w, bucket_name, listed, destination_bucket_name, override) ==
    IF listed = <<>> \/ w.raised # None THEN w
    ELSE CopyEach(copy_file(w, bucket_name, Head(listed),
                            destination_bucket_name, override),
                  bucket_name, Tail(listed), destination_bucket_name, override)

copy_files_first_listed(w, bucket_name, prefix, destination_bucket_name, override) ==
    LET listed == list_files(w, bucket_name, prefix)
    IN  Return(CopyEach(listed, bucket_name,
                        SelectSeq(listed.ret, LAMBDA n : n = Head(listed.ret)),
                        destination_bucket_name, override), None)
copy_files(w, bucket_name, prefix, destination_bucket_name, override) ==
    LET listed == list_files(w, bucket_name, prefix)
    IN  Return(CopyEach(listed, bucket_name, listed.ret,
                        destination_bucket_name, override), None)

CopyFiles ==
    /\ call = NoCall
    /\ \E b \in BucketNames, p \in Prefixes, d \in BucketNames, o \in BOOLEAN :
           Commit(copy_files(World, b, p, d, o), "copy_files",
                  [bucket |-> b, prefix |-> p, destination |-> d,
                   override |-> o])

CopyFilesNext ==
    \/ CopyFiles
    \/ TakeResult

SpecCopyFiles == CSInit /\ [][CopyFilesNext]_vars

\* C23: after copy_files the source bucket is as it was; every source name
\* under the prefix exists in the destination, with the source's content
\* unless override is False and the name was already there, in which case
\* the destination's blob is as it was; every other blob of the destination
\* and every other bucket is untouched; one copy is asked per blob copied.
C23_CopyFilesCopiesPrefix ==
    call.op = "copy_files" =>
        LET before == call.pre.buckets
            src == call.args.bucket
            dst == call.args.destination
            under == {n \in DOMAIN before[src] :
                         StartsWith(n, call.args.prefix)}
            kept == {n \in under : n \in DOMAIN before[dst]
                                    /\ ~call.args.override}
        IN  /\ call.raised = None
            /\ buckets[src] = before[src]
            /\ \A b \in BucketNames \ {dst} : buckets[b] = before[b]
            /\ DOMAIN buckets[dst] = DOMAIN before[dst] \cup under
            /\ \A n \in DOMAIN buckets[dst] :
                  buckets[dst][n] = IF n \in under \ kept THEN before[src][n]
                                    ELSE before[dst][n]
            /\ {c.name : c \in {log[i] : i \in At(log, "copy_blob")}}
                  = under \ kept
            /\ Len(Calls(log, "copy_blob")) = Cardinality(under \ kept)

\* two blobs under the prefix, one already in the destination with another
\* content and kept, the other one copied
C23_Witness ==
    /\ call.op = "copy_files"
    /\ ~call.args.override
    /\ call.args.bucket # call.args.destination
    /\ \E n, m \in DOMAIN call.pre.buckets[call.args.bucket] :
          /\ n # m
          /\ StartsWith(n, call.args.prefix)
          /\ StartsWith(m, call.args.prefix)
          /\ n \in DOMAIN call.pre.buckets[call.args.destination]
          /\ call.pre.buckets[call.args.destination][n]
                # call.pre.buckets[call.args.bucket][n]
          /\ buckets[call.args.destination][n]
                = call.pre.buckets[call.args.destination][n]
          /\ m \notin DOMAIN call.pre.buckets[call.args.destination]
          /\ m \in DOMAIN buckets[call.args.destination]

\* ---------------------------------------------------------------------------
\* C24
\* ---------------------------------------------------------------------------

\* C24: a build_job_config with partition_date None that finds a parsed
\* schema at data_path + 'schema.json' returns a configuration with write
\* disposition WRITE_TRUNCATE and the source uri gs://<bucket>/<data_path>
\* followed by the file pattern, with no date in it.
C24_NoneDateTruncates ==
    (/\ call.op = "build_job_config"
     /\ call.args.partition_date = NoneDate
     /\ (call.args.data_path \o SchemaJson) \in DOMAIN call.pre.files
     /\ "json" \in DOMAIN call.pre.files[call.args.data_path \o SchemaJson])
        => /\ call.raised = None
           /\ call.ret.job_config.write_disposition = WRITE_TRUNCATE
           /\ \E pattern \in {<<"/", "*", ".csv", ".gz">>,
                              <<"/", "*", ".json", ".gz">>} :
                 call.ret.uri = <<"gs://", call.args.bucket, "/">>
                                    \o call.args.data_path \o pattern

\* ---------------------------------------------------------------------------
\* ReportService._get_report_by_report_job
\* ---------------------------------------------------------------------------

\* tempfile.NamedTemporaryFile(suffix=..., delete=False): an empty file under
\* a fresh name, which stays on disk after close()
EmptyFile == [bytes |-> "empty"]
NamedTemporaryFile(w, name) ==
    [Logged(w, [api |-> "tempfile.NamedTemporaryFile", name |-> name])
     EXCEPT !.files = With(@, name, EmptyFile)]

\* os.remove(path)
os_remove(w, path) ==
    [Logged(w, [api |-> "os.remove", path |-> path])
     EXCEPT !.files = Without(@, path)]

\* lines 949-966: the download into report_file_gz and what follows it.
\* answer.download is an error of the service or the bytes it sends: the
\* gzip of a CSV text, the gzip of bytes that are no text, or no gzip at all.
DownloadAndRead(w, answer, names) ==
    LET asked == Logged(w, [api |-> "DownloadReportToFile",
                            report_job_id |-> answer.wait.id,
                            export_format |-> "CSV_DUMP",
                            file |-> names.gz])
    IN
    IF "error" \in DOMAIN answer.download
    THEN Raise(asked, answer.download.error)
    ELSE
    LET downloaded == [asked EXCEPT !.files = With(@, names.gz, answer.download)]
        opened == Logged(downloaded, [api |-> "gzip.open", path |-> names.gz])
    IN
    \* shutil.copyfileobj(f_in, f_out) reads the gzip stream
    IF "gzip" \notin DOMAIN answer.download
    THEN Raise(opened, "BadGzipFile")
    ELSE
    LET copied == [opened EXCEPT
                       !.files = With(@, names.csv, answer.download.gzip)]
        gone == os_remove(copied, names.gz)
    IN
    \* csv.DictReader over the text of report_file
    IF "rows" \notin DOMAIN answer.download.gzip
    THEN Raise(gone, "UnicodeDecodeError")
    ELSE Return(os_remove(gone, names.csv), answer.download.gzip.rows)

\* answer.wait is the id WaitForReport returns or the error it raises;
\* names are the names the two NamedTemporaryFile calls pick
_get_report_by_report_job(w, answer, names, report_job) ==
    LET waited == Logged(w, [api |-> "WaitForReport",
                             report_job |-> report_job])
    IN
    IF "error" \in DOMAIN answer.wait
    THEN Raise(waited, answer.wait.error)
    ELSE DownloadAndRead(
             NamedTemporaryFile(NamedTemporaryFile(waited, names.gz),
                                names.csv),
             answer, names)

ReportRow == [date |-> "2023-01-01", impressions |-> "100"]
ReportDownloads ==
    {[error |-> "GoogleAdsError"], [text |-> "no gzip"],
     [gzip |-> [bytes |-> "no text"]]}
        \cup {[gzip |-> [rows |-> rows]] :
                 rows \in {<<>>, <<ReportRow>>, <<ReportRow, ReportRow>>}}
ReportWaits ==
    {[id |-> 10], [id |-> 11], [error |-> "AdManagerReportError"]}
TempStems == {"tmp1", "tmp2"}
KeptFile == <<"/tmp/", "kept", ".csv">>

GetReportByReportJob ==
    /\ call = NoCall
    /\ \E wait \in ReportWaits, download \in ReportDownloads,
          gz \in TempStems, csv \in TempStems, report_job \in {"job"} :
           LET answer == [wait |-> wait, download |-> download]
               names == [gz |-> <<"/tmp/", gz, ".csv.gz">>,
                         csv |-> <<"/tmp/", csv, ".csv">>]
           IN  \* the names picked are fresh
               /\ {names.gz, names.csv} \cap DOMAIN files = {}
               /\ Commit(_get_report_by_report_job(World, answer, names,
                                                   report_job),
                         "_get_report_by_report_job",
                         [answer |-> answer, names |-> names,
                          report_job |-> report_job])

ReportInit ==
    /\ ListIdleInit
    /\ call = NoCall
    /\ log = <<>>
    /\ created = EmptyMap
    /\ tables = {}
    /\ files \in {EmptyMap, Entry(KeptFile, [text |-> "old"])}
    /\ buckets = [b \in BucketNames |-> EmptyMap]

ReportNext ==
    \/ GetReportByReportJob
    \/ TakeResult

SpecReport == ReportInit /\ [][ReportNext]_vars

\* C25: after _get_report_by_report_job has ended, by returning the rows or
\* by raising, neither temporary file is on disk; when WaitForReport raises
\* AdManagerReportError that error is raised, no download was asked for and
\* no temporary file was created.
C25_NoTemporaryFileRemains ==
    call.op = "_get_report_by_report_job" =>
        /\ call.args.names.gz \notin DOMAIN files
        /\ call.args.names.csv \notin DOMAIN files
        /\ files = call.pre.files
        /\ "error" \in DOMAIN call.args.answer.wait =>
              /\ call.raised = call.args.answer.wait.error
              /\ At(log, "DownloadReportToFile") = {}
              /\ At(log, "tempfile.NamedTemporaryFile") = {}

\* ---------------------------------------------------------------------------
\* A paginated list call while another client deletes items of the listed
\* collection
\* ---------------------------------------------------------------------------

\* most items the service holds
MaxCollection == 3

\* get...ByStatement(statement.ToStatement()): the service answers with the
\* items at positions offset .. offset + limit - 1 of the collection as it is
\* at the time of the request, and without 'results' when there is none
GetByStatement(held, st) ==
    LET page == PySlice(held, st.offset, st.offset + st.limit)
    IN  IF page = <<>> THEN NoResultsKey
        ELSE [hasKey |-> TRUE, results |-> page]

ConcurrentListMethods == {"AudienceService.list", "CustomTargetingService.list"}

ConcurrentAudienceList ==
    LET response == GetByStatement(collection, statement)
    IN  ListIteration("AudienceService.list", response,
                      Extend(results, response.results))

ConcurrentCustomTargetingList ==
    LET response == GetByStatement(collection, statement)
    IN  ListIteration("CustomTargetingService.list", response,
                      AppendEach(results, response.results))

\* another client deletes one item between two page requests of the call
DeleteItem ==
    /\ pc = "loop"
    /\ log # <<>>
    /\ \E i \in 1..Len(collection) :
          collection' = SubSeq(collection, 1, i - 1)
                            \o SubSeq(collection, i + 1, Len(collection))
    /\ UNCHANGED <<call, log, pc, statement, results, responses, callers,
                   buckets, files, tables, created>>

\* the collections of the model: ids in ascending order
Collections ==
    {SelectSeq([i \in 1..MaxCollection |-> i], LAMBDA i : i \in S) :
         S \in SUBSET (1..MaxCollection)}

ConcurrentListInit ==
    /\ pc = "idle"
    /\ statement = StatementBuilder
    /\ results = <<>>
    /\ responses = <<>>
    /\ collection \in Collections
    /\ callers = <<>>
    /\ call = NoCall
    /\ log = <<>>
    /\ buckets = <<>>
    /\ files = <<>>
    /\ tables = {}
    /\ created = EmptyMap

ConcurrentListNext ==
    \/ \E m \in ConcurrentListMethods : ListStart(m)
    \/ ConcurrentAudienceList
    \/ ConcurrentCustomTargetingList
    \/ DeleteItem

SpecConcurrentList == ConcurrentListInit /\ [][ConcurrentListNext]_vars

\* C26: when a list call has ended, every item the service still holds (the
\* collection only loses items during the call, so these are the items that
\* were present during the whole call) is among the items returned.
C26_NoSurvivingItemSkipped ==
    (pc = "done" /\ call.op \in ConcurrentListMethods) =>
        \A i \in 1..Len(collection) :
            \E k \in 1..Len(call.ret) : call.ret[k] = collection[i]

\* ---------------------------------------------------------------------------
\* Two callers of upload_from_string / upload_file_from_filename with
\* override=False on one blob name: each caller's existence check and its
\* write are two requests to Cloud Storage, and the requests of the callers
\* interleave
\* ---------------------------------------------------------------------------

Callers == {"caller1", "caller2"}
RacedBucket == "b1"
RacedBlob == <<"x">>

\* `self.file_exists(destination_blob_name, bucket_name)` of caller c
UploadCheck(c, method) ==
    /\ callers[c].pc = "start"
    /\ callers[c].method = method
    /\ LET e == file_exists(World, RacedBlob, RacedBucket)
       IN  /\ callers' = [callers EXCEPT ![c].pc = "checked",
                                         ![c].exists = e.ret]
           /\ log' = log \o e.log
    /\ UNCHANGED <<call, pc, statement, results, responses, collection,
                   buckets, files, tables, created>>

UploadFromStringCheck(c) == UploadCheck(c, "upload_from_string")

UploadFileFromFilenameCheck(c) == UploadCheck(c, "upload_file_from_filename")

\* the rest of upload_from_string of caller c, after its check
UploadFromStringWrite(c) ==
    /\ callers[c].pc = "checked"
    /\ callers[c].method = "upload_from_string"
    /\ LET u == IF UploadFromStringWrites(callers[c].exists = PyTrue,
                                          callers[c].override)
                THEN blob_upload_from_string(World, RacedBucket, RacedBlob,
                                             callers[c].data)
                ELSE World
       IN  /\ buckets' = u.buckets
           /\ log' = log \o u.log
           /\ callers' = [callers EXCEPT ![c].pc = "done",
                                         ![c].wrote = (u.log # <<>>)]
    /\ UNCHANGED <<call, pc, statement, results, responses, collection,
                   files, tables, created>>

\* the rest of upload_file_from_filename of caller c, after its check
UploadFileFromFilenameWrite(c) ==
    /\ callers[c].pc = "checked"
    /\ callers[c].method = "upload_file_from_filename"
    /\ LET u == IF UploadFileWrites(callers[c].exists = PyTrue,
                                    callers[c].override)
                THEN blob_upload_from_filename(World, RacedBucket, RacedBlob,
                                               callers[c].path)
                ELSE World
       IN  /\ buckets' = u.buckets
           /\ log' = log \o u.log
           /\ callers' = [callers EXCEPT ![c].pc = "done",
                                         ![c].wrote = (u.log # <<>>)]
    /\ UNCHANGED <<call, pc, statement, results, responses, collection,
                   files, tables, created>>

\* a caller about to run one of the two methods with override=False
CallerStarts ==
    {[pc |-> "start", method |-> "upload_from_string", data |-> d,
      path |-> NonePath, override |-> FALSE, exists |-> None, wrote |-> FALSE] :
         d \in Texts}
    \cup
    {[pc |-> "start", method |-> "upload_file_from_filename",
      data |-> [text |-> "none"], path |-> p, override |-> FALSE,
      exists |-> None, wrote |-> FALSE] : p \in LocalPaths}

RaceInit ==
    /\ pc = "idle"
    /\ statement = StatementBuilder
    /\ results = <<>>
    /\ responses = <<>>
    /\ collection = <<>>
    /\ callers \in [Callers -> CallerStarts]
    /\ call = NoCall
    /\ log = <<>>
    /\ created = EmptyMap
    /\ tables = {}
    /\ files = [p \in LocalPaths |-> [text |-> "local"]]
    /\ \E blob \in {Absent, [text |-> "first"]} :
          buckets = [b \in BucketNames |->
                        IF b = RacedBucket THEN Entry(RacedBlob, blob)
                        ELSE EmptyMap]

RaceNext ==
    \/ \E c \in Callers : UploadFromStringCheck(c)
    \/ \E c \in Callers : UploadFileFromFilenameCheck(c)
    \/ \E c \in Callers : UploadFromStringWrite(c)
    \/ \E c \in Callers : UploadFileFromFilenameWrite(c)

SpecRace == RaceInit /\ [][RaceNext]_vars

\* C27: of two callers that upload to the same blob name with
\* override=False, at most one writes the blob: Cloud Storage is asked for
\* at most one write of that name, whatever the interleaving of the checks
\* and the writes.
C27_AtMostOneCallerWrites ==
    /\ Cardinality({c \in Callers : callers[c].wrote}) <= 1
    /\ Cardinality(At(log, "blob.upload_from_string")
                       \cup At(log, "blob.upload_from_filename")) <= 1

\* ---------------------------------------------------------------------------
\* C28
\* ---------------------------------------------------------------------------

\* C28: one load_from_local call downloads the schema from Cloud Storage at
\* most once, and every download it makes asks for the blob
\* <table>/schema.json and writes local_folder + 'schema.json'; the schema
\* file its load_from_cloud step opens lies under local_folder.
C28_SchemaDownloadedOnce ==
    call.op = "load_from_local" =>
        LET a == call.args
            downloads == At(log, "blob.download_as_string")
        IN  /\ Cardinality(downloads) <= 1
            /\ \A i \in downloads :
                  /\ log[i].name = <<a.table, "/">> \o SchemaJson
                  /\ log[i].destination = a.local_folder \o SchemaJson
            /\ \A i \in At(log, "open") :
                  StartsWith(log[i].path, a.local_folder)

====
